---- MODULE Spec2Model ----
(***************************************************************************)
(* datannurpy: the catalog accumulator (Catalog), its three walkers        *)
(* (add_folder, add_database, add_dataset), the identifier builder and the *)
(* readers the walkers call.                                               *)
(*                                                                         *)
(* Strings are sequences of one-character strings, so that sanitize_id,    *)
(* make_id, Path.suffix and sorted() are computed character by character.  *)
(* Python's None is the value None below; it is not a string of the model. *)
(***************************************************************************)
EXTENDS Integers, Sequences, FiniteSets, TLC

(***************************************************************************)
(* Bounds of the model                                                     *)
(***************************************************************************)
\* number of ingestion calls issued on the one Catalog
MaxCalls == 2

\* number of scans that feed the one Catalog side by side
MaxWorkers == 2

(***************************************************************************)
(* Characters and strings                                                  *)
(***************************************************************************)
\* Unicode code point of every character the model's names are written in
CodePoint ==
    ( " " :> 32 @@ "#" :> 35 @@ "+" :> 43 @@ "," :> 44 @@ "-" :> 45 @@ "." :> 46
   @@ "(" :> 40 @@ ")" :> 41
   @@ "0" :> 48 @@ "1" :> 49 @@ "2" :> 50 @@ "3" :> 51 @@ "4" :> 52
   @@ "7" :> 55
   @@ "@" :> 64 @@ "A" :> 65 @@ "F" :> 70 @@ "M" :> 77 @@ "_" :> 95
   @@ "a" :> 97 @@ "b" :> 98 @@ "c" :> 99 @@ "d" :> 100 @@ "e" :> 101
   @@ "f" :> 102 @@ "g" :> 103 @@ "h" :> 104 @@ "i" :> 105 @@ "k" :> 107
   @@ "l" :> 108 @@ "m" :> 109 @@ "n" :> 110 @@ "o" :> 111 @@ "p" :> 112
   @@ "q" :> 113 @@ "r" :> 114 @@ "s" :> 115 @@ "t" :> 116 @@ "u" :> 117
   @@ "v" :> 118 @@ "w" :> 119 @@ "x" :> 120 @@ "y" :> 121 @@ "z" :> 122
   @@ "é" :> 233 @@ "ü" :> 252 )

\* Python None, in a field that otherwise holds a string
None == <<"<None>">>
\* Python None, in a field that otherwise holds an int
NoneInt == -1

\* Python truthiness of an optional string: None and "" are falsy
Truthy(s) == s /= None /\ s /= <<>>

\* a or b, on optional strings
Or(a, b) == IF Truthy(a) THEN a ELSE b

\* str.__lt__: lexicographic order on code points
StrLess(a, b) ==
    \E i \in 1..(Len(a) + 1) :
        /\ \A j \in 1..(i - 1) : j <= Len(b) /\ a[j] = b[j]
        /\ i <= Len(b)
        /\ (i = Len(a) + 1 \/ CodePoint[a[i]] < CodePoint[b[i]])

\* PurePath.__lt__: lexicographic order on the path's parts
PathLess(p, q) ==
    \E i \in 1..(Len(p) + 1) :
        /\ \A j \in 1..(i - 1) : j <= Len(q) /\ p[j] = q[j]
        /\ i <= Len(q)
        /\ (i = Len(p) + 1 \/ StrLess(p[i], q[i]))

RECURSIVE SetToSeq(_)
SetToSeq(S) ==
    IF S = {} THEN <<>>
    ELSE LET x == CHOOSE y \in S : TRUE IN <<x>> \o SetToSeq(S \ {x})

\* sorted(strings)
SortedStrs(S) == SortSeq(SetToSeq(S), LAMBDA a, b : StrLess(a, b))

\* sorted(paths)
SortedPaths(S) == SortSeq(SetToSeq(S), LAMBDA p, q : PathLess(p, q))

Range(s) == {s[i] : i \in 1..Len(s)}

RECURSIVE Flatten(_)
Flatten(ss) == IF ss = <<>> THEN <<>> ELSE Head(ss) \o Flatten(Tail(ss))

\* sep.join(parts)
RECURSIVE Join(_, _)
Join(sep, parts) ==
    IF parts = <<>> THEN <<>>
    ELSE IF Len(parts) = 1 THEN parts[1]
    ELSE parts[1] \o sep \o Join(sep, Tail(parts))

\* s.startswith(p)
StartsWith(s, p) == Len(p) <= Len(s) /\ SubSeq(s, 1, Len(p)) = p

(***************************************************************************)
(* _ids.py                                                                 *)
(***************************************************************************)
ID_SEPARATOR == <<"-", "-", "-">>

MODALITIES_FOLDER_ID == <<"_", "m", "o", "d", "a", "l", "i", "t", "i", "e", "s">>

\* the characters matched by [a-zA-Z0-9_,\- ]
ValidIdChar(c) ==
    LET n == CodePoint[c]
    IN  \/ n \in 97..122
        \/ n \in 65..90
        \/ n \in 48..57
        \/ n \in {95, 44, 45, 32}

sanitize_id(value) ==
    [i \in 1..Len(value) |-> IF ValidIdChar(value[i]) THEN value[i] ELSE "_"]

\* make_id joining with a single hyphen
make_id_single_hyphen(parts) == Join(<<"-">>, parts)

\* ID_SEPARATOR.join(parts)
make_id(parts) == Join(ID_SEPARATOR, parts)

\* s.find(sep): index of the first occurrence of sep in s, 0 if there is none
find(s, sep) ==
    LET I == {i \in 1..(Len(s) - Len(sep) + 1) : SubSeq(s, i, i + Len(sep) - 1) = sep}
    IN  IF I = { } THEN 0 ELSE CHOOSE i \in I : \A j \in I : i <= j

\* id.split(sep), as a consumer recovers the hierarchy from an id: cut at
\* every occurrence of sep, found from the left
RECURSIVE split(_, _)
split(s, sep) ==
    IF find(s, sep) = 0 THEN <<s>>
    ELSE <<SubSeq(s, 1, find(s, sep) - 1)>>
         \o split(SubSeq(s, find(s, sep) + Len(sep), Len(s)), sep)

(***************************************************************************)
(* The sources the walkers are pointed at: tables, a filesystem, databases *)
(***************************************************************************)
\* a table is [cols : sequence of column names, rows : sequence of rows];
\* a row holds one value (a string or None) per column
T_people ==
    [cols |-> << <<"c", "@">>, <<"c", "#">>, <<"k">> >>,
     rows |-> << << <<"M">>, <<"x">>, <<"1">> >>,
                 << <<"F">>, <<"y">>, <<"2">> >>,
                 << <<"M">>, <<"x">>, <<"3">> >> >>]

T_sex ==
    [cols |-> << <<"s">> >>,
     rows |-> << << <<"F">> >>, << <<"M">> >>, << None >> >>]

T_gender ==
    [cols |-> << <<"g">>, <<"n">> >>,
     rows |-> << << <<"M">>, None >>, << <<"F">>, None >> >>]

T_empty == [cols |-> << <<"k">> >>, rows |-> << >>]

NoTable == [cols |-> << >>, rows |-> << >>]

\* regular files: path from the filesystem root, state of the content
\* ("table": parseable, "empty": 0 bytes, "corrupt": no reader parses it)
Files ==
    { [path |-> << <<"r", "@">>, <<"a", "@", ".", "c", "s", "v">> >>,
       content |-> "table", table |-> T_people],
      [path |-> << <<"r", "@">>, <<"a", "#", ".", "c", "s", "v">> >>,
       content |-> "table", table |-> T_sex],
      [path |-> << <<"r", "@">>, <<"s">>, <<"t">>, <<"c", ".", "x", "l", "s", "x">> >>,
       content |-> "table", table |-> T_gender],
      [path |-> << <<"r", "@">>, <<"d", "l">>, <<"p", ".", "p", "a", "r", "q", "u", "e", "t">> >>,
       content |-> "table", table |-> T_sex],
      [path |-> << <<"r", "@">>, <<"d", "l">>, <<"w">>, <<"x", ".", "c", "s", "v">> >>,
       content |-> "table", table |-> T_sex],
      [path |-> << <<"r", "#">>, <<"b", ".", "x", "l", "s", "x">> >>,
       content |-> "corrupt", table |-> NoTable],
      [path |-> << <<"r", "#">>, <<"c", ".", "c", "s", "v">> >>,
       content |-> "table", table |-> T_sex],
      [path |-> << <<"r", "#">>, <<"e", ".", "c", "s", "v">> >>,
       content |-> "corrupt", table |-> NoTable],
      [path |-> << <<"r", "#">>, <<"z", ".", "c", "s", "v">> >>,
       content |-> "empty", table |-> NoTable],
      [path |-> << <<"r", "#">>, <<"n", ".", "j", "s", "o", "n">> >>,
       content |-> "table", table |-> NoTable],
      [path |-> << <<"o", "k">>, <<"g", ".", "c", "s", "v">> >>,
       content |-> "table", table |-> T_gender],
      [path |-> << <<"o", "k">>, <<"q", ".", "c", "s", "v">> >>,
       content |-> "corrupt", table |-> NoTable],
      [path |-> << <<"o", "k">>, <<"l", ".", "s", "a", "s", "7", "b", "d", "a", "t">> >>,
       content |-> "table", table |-> T_sex],
      [path |-> << <<"o", "k">>, <<"h">>, <<"p", ".", "p", "a", "r", "q", "u", "e", "t">> >>,
       content |-> "table", table |-> T_gender],
      [path |-> << <<"o", "k">>, <<"m">>, <<"i">>, <<"p", ".", "p", "a", "r", "q", "u", "e", "t">> >>,
       content |-> "table", table |-> T_empty] }

\* the label embedded in a file (meta.file_label), "" when the file has none
file_label(p) ==
    IF p = << <<"o", "k">>, <<"l", ".", "s", "a", "s", "7", "b", "d", "a", "t">> >>
    THEN <<"l", "b">>
    ELSE << >>

\* directories that hold no matched file
EmptyDirs == { << <<"r", "#">>, <<"u">> >> }

\* directories that are one multi-file dataset, with the kind the discovery
\* collaborator reports and the metadata embedded in the dataset
DatasetDirs ==
    { [path |-> << <<"r", "@">>, <<"d", "l">> >>, kind |-> "delta",
       table |-> T_sex, name |-> <<"n", "m">>, description |-> <<"d", "e">>],
      [path |-> << <<"o", "k">>, <<"h">> >>, kind |-> "hive",
       table |-> T_gender, name |-> None, description |-> None],
      [path |-> << <<"o", "k">>, <<"m">>, <<"i">> >>, kind |-> "delta",
       table |-> T_empty, name |-> None, description |-> None] }

FilePaths == {f.path : f \in Files}

FileAt(p) == CHOOSE f \in Files : f.path = p

\* every proper, non-empty leading part of a path
Ancestors(p) == {SubSeq(p, 1, n) : n \in 1..(Len(p) - 1)}

DirPaths ==
    UNION {Ancestors(p) : p \in FilePaths} \cup EmptyDirs
    \cup UNION {Ancestors(d) : d \in EmptyDirs}

\* Path.exists, Path.is_dir, Path.is_file
exists(p) == p \in FilePaths \cup DirPaths
is_dir(p) == p \in DirPaths
is_file(p) == p \in FilePaths

\* Path.parent, Path.name, Path.relative_to
parent(p) == SubSeq(p, 1, Len(p) - 1)
name(p) == p[Len(p)]
relative_to(p, root) == SubSeq(p, Len(root) + 1, Len(p))
\* root in p.parents
InParents(root, p) == root \in Ancestors(p)

\* index of the last "." of a file name that starts a suffix, 0 if none
DotIndex(n) ==
    LET I == {i \in 2..(Len(n) - 1) : n[i] = "."}
    IN  IF I = {} THEN 0 ELSE CHOOSE i \in I : \A j \in I : j <= i

\* Path.suffix and Path.stem
suffix(p) ==
    LET n == name(p) i == DotIndex(n)
    IN  IF i = 0 THEN <<>> ELSE SubSeq(n, i, Len(n))
stem(p) ==
    LET n == name(p) i == DotIndex(n)
    IN  IF i = 0 THEN n ELSE SubSeq(n, 1, i - 1)

\* str.lower, on the characters of the model
lower(s) ==
    [i \in 1..Len(s) |->
        CASE s[i] = "A" -> "a" [] s[i] = "F" -> "f" [] s[i] = "M" -> "m"
          [] OTHER -> s[i]]

\* get_mtime_iso(path): the date depends on the path alone
get_mtime_iso(p) == <<"mtime">> \o Flatten(p)

\* str(path)
str(p) == Join(<<"/">>, p)

(***************************************************************************)
(* readers/_utils.py, readers/csv.py, readers/excel.py                     *)
(***************************************************************************)
DEFAULT_EXTENSIONS ==
    { <<".", "c", "s", "v">>, <<".", "x", "l", "s", "x">>, <<".", "x", "l", "s">> }

\* SUPPORTED_FORMATS.get(suffix); tags (delivery_format, Folder.type) are
\* plain strings, "None" when absent
SUPPORTED_FORMATS(sfx) ==
    CASE sfx = <<".", "c", "s", "v">> -> "csv"
      [] sfx = <<".", "x", "l", "s", "x">> -> "excel"
      [] sfx = <<".", "x", "l", "s">> -> "excel"
      [] OTHER -> "None"

\* find_files(root, include=None, exclude=None, recursive), as a set
find_files(root, recursive) ==
    { p \in FilePaths :
        /\ IF recursive THEN InParents(root, p) ELSE parent(p) = root
        /\ lower(suffix(p)) \in DEFAULT_EXTENSIONS }

\* the orders in which the filesystem may list the entries of a tree
Listings == {"asc", "desc"}

\* the paths of a set as root.glob hands them over under a listing order
Reversed(s) == [i \in 1..Len(s) |-> s[Len(s) + 1 - i]]
Listed(S, listing) ==
    IF listing = "asc" THEN SortedPaths(S) ELSE Reversed(SortedPaths(S))

\* find_files(root, None, None, recursive): the list, in listing order
find_files_listed(root, recursive, listing) == Listed(find_files(root, recursive), listing)

\* find_subdirs(root, files)
find_subdirs(root, files) ==
    UNION { {d \in Ancestors(f) : InParents(root, d)} : f \in files }

\* the values of column c, the rows that hold the first occurrence of each
ColValues(t, c) == {t.rows[r][c] : r \in 1..Len(t.rows)}
FirstRows(t, c) ==
    SortSeq(SetToSeq({r \in 1..Len(t.rows) :
                        \A q \in 1..(r - 1) : t.rows[q][c] /= t.rows[r][c]}),
            LAMBDA a, b : a < b)

\* pl.col(col).n_unique(): a null counts as one distinct value
n_unique(t, c) == Cardinality(ColValues(t, c))
null_count(t, c) == Cardinality({r \in 1..Len(t.rows) : t.rows[r][c] = None})

\* value_counts of one column as frequency rows keyed by the column name
value_counts(t, c) ==
    LET first == FirstRows(t, c)
    IN  [i \in 1..Len(first) |->
            [variable_id |-> t.cols[c],
             value |-> t.rows[first[i]][c],
             freq |-> Cardinality({r \in 1..Len(t.rows) :
                                     t.rows[r][c] = t.rows[first[i]][c]})]]

\* build_variables: the provisional Variables and the frequency table
\* (has_freq = FALSE is the None the code returns when there is no table).
\* freq_values is not a field of Variable: it remembers, for the properties,
\* the distinct non-null values of the column's own frequency rows
build_variables(t, infer_stats, freq_threshold) ==
    LET nb_rows == Len(t.rows)
        ncol == Len(t.cols)
        stats == infer_stats /\ ncol > 0
        eligible == SelectSeq([c \in 1..ncol |-> c],
                              LAMBDA c : n_unique(t, c) <= freq_threshold)
        has_freq == freq_threshold /= NoneInt /\ stats /\ eligible /= <<>>
    IN  [variables |->
            [c \in 1..ncol |->
                [id |-> t.cols[c],
                 name |-> t.cols[c],
                 dataset_id |-> None,
                 nb_distinct |-> IF stats THEN n_unique(t, c) ELSE NoneInt,
                 nb_duplicate |-> IF stats THEN nb_rows - n_unique(t, c) ELSE NoneInt,
                 nb_missing |-> IF stats THEN null_count(t, c) ELSE NoneInt,
                 modality_ids |-> << >>,
                 freq_values |-> IF has_freq /\ c \in Range(eligible)
                                 THEN ColValues(t, c) \ {None} ELSE { }]],
         has_freq |-> has_freq,
         freq |-> IF has_freq
                  THEN Flatten([i \in 1..Len(eligible) |-> value_counts(t, eligible[i])])
                  ELSE << >>]

\* what a scan hands back: raised names the exception that left the scanner
ScanResult(raised, bv, nb_row, mname, mdesc) ==
    [raised |-> raised, variables |-> bv.variables, nb_row |-> nb_row,
     has_freq |-> bv.has_freq, freq |-> bv.freq,
     meta_name |-> mname, meta_description |-> mdesc]

NoVariables == [variables |-> << >>, has_freq |-> FALSE, freq |-> << >>]

\* scan_csv: an empty file and a file no encoding parses both give ([], 0, None)
scan_csv(f, infer_stats, freq_threshold) ==
    IF f.content = "empty" THEN ScanResult("none", NoVariables, 0, None, None)
    ELSE IF f.content = "corrupt" THEN ScanResult("none", NoVariables, 0, None, None)
    ELSE ScanResult("none", build_variables(f.table, infer_stats, freq_threshold),
                    Len(f.table.rows), None, None)

\* scan_excel: con.sql(st_read(path)) is not guarded, a file DuckDB cannot
\* open leaves the function as an exception
scan_excel(f, infer_stats, freq_threshold) ==
    IF f.content /= "table" THEN ScanResult("IOException", NoVariables, NoneInt, None, None)
    ELSE ScanResult("none", build_variables(f.table, infer_stats, freq_threshold),
                    Len(f.table.rows), None, None)

\* scan_sas: SasMetadata(description=meta.file_label or None)
scan_sas(f, infer_stats, freq_threshold) ==
    IF f.content /= "table" THEN ScanResult("ReadstatError", NoVariables, NoneInt, None, None)
    ELSE ScanResult("none", build_variables(f.table, infer_stats, freq_threshold),
                    Len(f.table.rows), None, Or(file_label(f.path), None))

\* scan_parquet on one file: the metadata carries the file's description
scan_parquet(f, infer_stats, freq_threshold) ==
    IF f.content /= "table" THEN ScanResult("ArrowInvalid", NoVariables, NoneInt, None, None)
    ELSE ScanResult("none", build_variables(f.table, infer_stats, freq_threshold),
                    Len(f.table.rows), None, Or(file_label(f.path), None))

\* the scanner _process_file picks for a delivery_format
scan_file(delivery_format, f, infer_stats, freq_threshold) ==
    CASE delivery_format = "parquet" -> scan_parquet(f, infer_stats, freq_threshold)
      [] delivery_format = "sas" -> scan_sas(f, infer_stats, freq_threshold)
      [] delivery_format = "csv" -> scan_csv(f, infer_stats, freq_threshold)
      [] OTHER -> scan_excel(f, infer_stats, freq_threshold)

(***************************************************************************)
(* entities and the Catalog aggregate (catalog.py)                         *)
(*                                                                         *)
(* A catalog value cat is the record of the Catalog's fields.  heap holds  *)
(* the Folder objects the caller owns and passes to the walkers; an entry  *)
(* of cat.folders whose obj is a handle of heap IS that object, so a write *)
(* to the object is a write to the entry.                                  *)
(***************************************************************************)
NewObj == "new"

Folder(id, nm, parent_id, type, data_path, last_update_date) ==
    [id |-> id, name |-> nm, parent_id |-> parent_id, type |-> type,
     data_path |-> data_path, last_update_date |-> last_update_date,
     obj |-> NewObj]

Dataset(id, nm, folder_id, data_path, last_update_date, delivery_format, nb_row, description) ==
    [id |-> id, name |-> nm, folder_id |-> folder_id, data_path |-> data_path,
     last_update_date |-> last_update_date, delivery_format |-> delivery_format,
     nb_row |-> nb_row, description |-> description]

\* _ensure_modalities_folder without the look-up by id
ensure_modalities_folder_unchecked(cat) ==
    [cat EXCEPT !.folders =
        Append(@, Folder(MODALITIES_FOLDER_ID,
                         <<"M", "o", "d", "a", "l", "i", "t", "i", "e", "s">>,
                         None, "None", None, None))]

\* Catalog._ensure_modalities_folder
ensure_modalities_folder(cat) ==
    IF \E i \in 1..Len(cat.folders) : cat.folders[i].id = MODALITIES_FOLDER_ID
    THEN cat
    ELSE [cat EXCEPT !.folders =
            Append(@, Folder(MODALITIES_FOLDER_ID,
                             <<"M", "o", "d", "a", "l", "i", "t", "i", "e", "s">>,
                             None, "None", None, None))]

Digit(n) == <<"0", "1", "2", "3", "4", "5", "6", "7", "8", "9">>[n + 1]

\* compute_modality_hash: a digest of the sorted values, each written with
\* its length in front so that no two value-sets share a digest
compute_modality_hash(vals) ==
    LET sorted == SortedStrs(vals)
    IN  Flatten([i \in 1..Len(sorted) |-> <<Digit(Len(sorted[i]))>> \o sorted[i]])

\* build_modality_name: the first three values in case-insensitive order
build_modality_name(vals) ==
    LET sorted == SortSeq(SetToSeq(vals), LAMBDA a, b : StrLess(lower(a), lower(b)))
        trunc(v) == IF Len(v) > 15 THEN SubSeq(v, 1, 12) \o <<".", ".", ".">> ELSE v
        shown == [i \in 1..(IF Len(sorted) > 3 THEN 3 ELSE Len(sorted)) |-> trunc(sorted[i])]
    IN  IF Len(sorted) <= 3 THEN Join(<<",", " ">>, shown)
        ELSE Join(<<",", " ">>, shown)
             \o <<".", ".", ".", " ", "(", "+">> \o <<Digit(Len(sorted) - 3)>> \o <<")">>

\* self._modality_index: the set of (signature, modality id) entries
IndexHas(cat, sig) == \E e \in cat.modality_index : e.sig = sig
IndexGet(cat, sig) == (CHOOSE e \in cat.modality_index : e.sig = sig).id

\* a new Modality that is filed under no folder
create_modality_unfiled(cat, vals, modality_id) ==
    LET sorted == SortedStrs(vals)
    IN  [cat |->
            [cat EXCEPT
                !.modalities = Append(@, [id |-> modality_id,
                                          folder_id |-> None,
                                          name |-> build_modality_name(vals)]),
                !.values = @ \o [i \in 1..Len(sorted) |->
                                    [modality_id |-> modality_id, value |-> sorted[i]]],
                !.modality_index = @ \cup {[sig |-> vals, id |-> modality_id]}],
         id |-> modality_id]

\* "Create new modality": the Modality and its Values, under modality_id
create_modality(cat, vals, modality_id) ==
    LET sorted == SortedStrs(vals)
    IN  [cat |->
            [cat EXCEPT
                !.modalities = Append(@, [id |-> modality_id,
                                          folder_id |-> MODALITIES_FOLDER_ID,
                                          name |-> build_modality_name(vals)]),
                !.values = @ \o [i \in 1..Len(sorted) |->
                                    [modality_id |-> modality_id, value |-> sorted[i]]],
                !.modality_index = @ \cup {[sig |-> vals, id |-> modality_id]}],
         id |-> modality_id]

\* _get_or_create_modality without the look-up in _modality_index
get_or_create_modality_no_index(cat, vals) ==
    create_modality(ensure_modalities_folder(cat), vals,
                    make_id(<<MODALITIES_FOLDER_ID,
                              <<"m", "o", "d", "_">> \o compute_modality_hash(vals)>>))

\* Catalog._get_or_create_modality: [cat, id]
get_or_create_modality(cat, vals) ==
    IF IndexHas(cat, vals) THEN [cat |-> cat, id |-> IndexGet(cat, vals)]
    ELSE create_modality(ensure_modalities_folder(cat), vals,
                         make_id(<<MODALITIES_FOLDER_ID,
                                   <<"m", "o", "d", "_">> \o compute_modality_hash(vals)>>))

\* the final id made of the raw column name
final_id_unsanitized(var, dataset_id) == make_id(<<dataset_id, Or(var.name, var.id)>>)

\* the final id _finalize_variables gives a scanned variable
final_id(var, dataset_id) == make_id(<<dataset_id, sanitize_id(Or(var.name, var.id))>>)

\* var_id_mapping: its keys in insertion order, the value stored under a key
mapping_keys(vars) ==
    LET first == SelectSeq([i \in 1..Len(vars) |-> i],
                           LAMBDA i : \A j \in 1..(i - 1) : vars[j].id /= vars[i].id)
    IN  [k \in 1..Len(first) |-> vars[first[k]].id]
mapping_get(vars, dataset_id, key) ==
    LET last == CHOOSE i \in 1..Len(vars) :
                    vars[i].id = key /\ \A j \in (i + 1)..Len(vars) : vars[j].id /= key
    IN  final_id(vars[last], dataset_id)

\* next(k for k, v in var_id_mapping.items() if v == var.id)
old_col_name(vars, dataset_id, new_id) ==
    LET keys == mapping_keys(vars)
        k == CHOOSE i \in 1..Len(keys) :
                /\ mapping_get(vars, dataset_id, keys[i]) = new_id
                /\ \A j \in 1..(i - 1) : mapping_get(vars, dataset_id, keys[j]) /= new_id
    IN  keys[k]

\* freq_by_var.get(col): the non-null values of the rows of a column, empty
\* when the column has no row
freq_by_var(freq, col) ==
    {freq[r].value : r \in {q \in 1..Len(freq) :
                              freq[q].variable_id = col /\ freq[q].value /= None}}

\* "Assign modalities to variables": variables i..Len(fin), in order; m is
\* what _get_or_create_modality handed back for variable i, vals the values
\* of the column looked up for it
RECURSIVE assign_modalities(_, _, _, _, _, _)
assign_modality(m, vars, fin, dataset_id, freq, i) ==
    assign_modalities(m.cat, vars, [fin EXCEPT ![i].modality_ids = <<m.id>>],
                      dataset_id, freq, i + 1)

assign_values(cat, vals, vars, fin, dataset_id, freq, i) ==
    IF vals /= { }
    THEN assign_modality(get_or_create_modality(cat, vals), vars, fin, dataset_id, freq, i)
    ELSE assign_modalities(cat, vars, fin, dataset_id, freq, i + 1)

assign_modalities(cat, vars, fin, dataset_id, freq, i) ==
    IF i > Len(fin) THEN [cat |-> cat, variables |-> fin]
    ELSE assign_values(cat, freq_by_var(freq, old_col_name(vars, dataset_id, fin[i].id)),
                       vars, fin, dataset_id, freq, i)

\* the frequency rows stored under the id the scan gave them
rewrite_variable_id_kept(vars, dataset_id, vid) == vid

\* ibis.cases over var_id_mapping.items(), else_ the row's own variable_id
rewrite_variable_id(vars, dataset_id, vid) ==
    IF vid \in Range(mapping_keys(vars)) THEN mapping_get(vars, dataset_id, vid) ELSE vid

\* "Update freq table with final variable IDs" and self.variables.extend:
\* r is what the assignment of the modalities left
extend_variables(r, vars, dataset_id, has_freq, rows) ==
    [r.cat EXCEPT
        !.freq_tables =
            IF has_freq
            THEN Append(@, [q \in 1..Len(rows) |->
                              [rows[q] EXCEPT !.variable_id =
                                  rewrite_variable_id(vars, dataset_id, rows[q].variable_id)]])
            ELSE @,
        !.variables = @ \o r.variables]

\* Catalog._finalize_variables; rows are the rows of freq_table, none if None
finalize_rows(cat, vars, dataset_id, has_freq, rows) ==
    extend_variables(
        assign_modalities(cat, vars,
                          [i \in 1..Len(vars) |->
                              [vars[i] EXCEPT !.dataset_id = dataset_id,
                                              !.id = final_id(vars[i], dataset_id)]],
                          dataset_id, rows, 1),
        vars, dataset_id, has_freq, rows)

finalize_variables(cat, vars, dataset, has_freq, freq) ==
    finalize_rows(cat, vars, dataset.id, has_freq, IF has_freq THEN freq ELSE << >>)

(***************************************************************************)
(* readers/parquet: discovery and scan of Parquet datasets                 *)
(***************************************************************************)
\* discover_parquet_datasets(root, None, None, recursive).datasets: the
\* dataset directories below root, in path order
discover_parquet_datasets(root, recursive) ==
    LET found == {d \in DatasetDirs :
                    IF recursive THEN InParents(root, d.path) ELSE parent(d.path) = root}
        paths == SortedPaths({d.path : d \in found})
    IN  [i \in 1..Len(paths) |-> CHOOSE d \in found : d.path = paths[i]]

\* .excluded_dirs and the Parquet files of the discovered datasets
excluded_dirs(infos) == {infos[i].path : i \in 1..Len(infos)}
parquet_files(infos) ==
    {p \in FilePaths : /\ lower(suffix(p)) = <<".", "p", "a", "r", "q", "u", "e", "t">>
                       /\ \E i \in 1..Len(infos) : InParents(infos[i].path, p)}

\* scan_parquet_dataset(info)
scan_parquet_dataset(info, infer_stats, freq_threshold) ==
    ScanResult("none", build_variables(info.table, infer_stats, freq_threshold),
               Len(info.table.rows), info.name, info.description)

(***************************************************************************)
(* Catalog.add_folder                                                      *)
(***************************************************************************)
\* a write to the fields of a Folder object the caller owns: the object in
\* heap and every entry of cat.folders that is this object
write_folder(cat, h, data_path, last_update_date, type) ==
    LET upd(f) == [f EXCEPT !.data_path = data_path,
                            !.last_update_date = last_update_date,
                            !.type = type]
    IN  [cat EXCEPT
            !.heap = [@ EXCEPT ![h] = upd(@)],
            !.folders = [i \in 1..Len(@) |-> IF @[i].obj = h THEN upd(@[i]) ELSE @[i]]]

\* self.freq_threshold if self.freq_threshold else None
threshold_or_none(cat) == IF cat.freq_threshold /= 0 THEN cat.freq_threshold ELSE NoneInt

\* Catalog._get_folder_id
get_folder_id(path, root, prefix, subdir_ids) ==
    IF parent(path) = root THEN prefix
    ELSE IF parent(path) \in DOMAIN subdir_ids THEN subdir_ids[parent(path)] ELSE prefix

\* Catalog._build_dataset_id_name: [id, name]
build_dataset_id_name(path, root, prefix) ==
    LET rel == relative_to(path, root)
        path_parts == [i \in 1..Len(rel) |-> sanitize_id(rel[i])]
    IN  IF is_file(path)
        THEN [id |-> make_id(<<prefix>> \o path_parts), name |-> stem(path)]
        ELSE IF rel = << >> THEN [id |-> prefix, name |-> name(path)]
        ELSE [id |-> make_id(<<prefix>> \o path_parts), name |-> name(path)]

\* the id add_folder gives the sub-folder of a directory
sub_folder_id(subdir, root, prefix) ==
    LET rel == relative_to(subdir, root)
    IN  make_id(<<prefix>> \o [i \in 1..Len(rel) |-> sanitize_id(rel[i])])

\* "Create sub-folders": subdir_ids after the first n directories of the order
subdir_ids_after(sorted, n, root, prefix) ==
    [d \in {sorted[i] : i \in 1..n} |-> sub_folder_id(d, root, prefix)]

\* sub_folder with the sub-directory's own id stored as its parent_id
sub_folder_own_parent(sorted, i, root, prefix) ==
    LET subdir == sorted[i]
    IN  Folder(sub_folder_id(subdir, root, prefix), name(subdir),
               sub_folder_id(subdir, root, prefix),
               "filesystem", str(subdir), get_mtime_iso(subdir))

\* the sub-folder of the i-th directory in sorted order
sub_folder(sorted, i, root, prefix) ==
    LET subdir == sorted[i]
        known == subdir_ids_after(sorted, i - 1, root, prefix)
        parent_id == IF parent(subdir) = root THEN prefix
                     ELSE IF parent(subdir) \in DOMAIN known THEN known[parent(subdir)]
                     ELSE prefix
    IN  Folder(sub_folder_id(subdir, root, prefix), name(subdir), parent_id,
               "filesystem", str(subdir), get_mtime_iso(subdir))

\* "if metadata and metadata.description and not dataset.description:
\* dataset.description = metadata.description" (the csv and excel scanners
\* hand back no metadata), then dataset.nb_row = nb_row
set_scan(dataset, res) ==
    [dataset EXCEPT !.nb_row = res.nb_row,
                    !.description = IF Truthy(res.meta_description) /\ ~Truthy(@)
                                    THEN res.meta_description ELSE @]

\* what _process_file does with the scanner's result res on the Dataset at
\* index k of cat.datasets, self._finalize_variables(...) included: [cat, raised]
store_scan(cat, k, res) ==
    IF res.raised /= "none" THEN [cat |-> cat, raised |-> res.raised]
    ELSE [cat |-> finalize_variables([cat EXCEPT !.datasets[k] = set_scan(@, res)],
                                     res.variables, cat.datasets[k],
                                     res.has_freq, res.freq),
          raised |-> "none"]

\* Catalog._process_file on the Dataset at index k of cat.datasets: [cat, raised]
process_file(cat, file_path, k, infer_stats, freq_threshold) ==
    store_scan(cat, k, scan_file(cat.datasets[k].delivery_format, FileAt(file_path),
                                 infer_stats, freq_threshold))

\* "Process Parquet datasets": infos i..Len(infos), in order
RECURSIVE add_parquet_datasets(_, _, _, _, _, _, _)
add_parquet_datasets(cat, infos, i, root, prefix, subdir_ids, infer_stats) ==
    IF i > Len(infos) THEN cat
    ELSE
        LET info == infos[i]
            idn == build_dataset_id_name(info.path, root, prefix)
            res == scan_parquet_dataset(info, infer_stats, threshold_or_none(cat))
            dataset == Dataset(idn.id, Or(res.meta_name, idn.name),
                               get_folder_id(info.path, root, prefix, subdir_ids),
                               str(info.path), get_mtime_iso(info.path), info.kind,
                               res.nb_row, res.meta_description)
            c1 == [cat EXCEPT !.datasets = Append(@, dataset)]
        IN  add_parquet_datasets(
                finalize_variables(c1, res.variables, dataset, res.has_freq, res.freq),
                infos, i + 1, root, prefix, subdir_ids, infer_stats)

\* "Process non-Parquet files": files i..Len(files) of sorted(files); the
\* loop ends at the first scan that raises; r is what _process_file left for
\* file i
RECURSIVE add_files(_, _, _, _, _, _, _, _)
next_file(r, files, i, root, prefix, subdir_ids, infos, infer_stats) ==
    IF r.raised /= "none" THEN r
    ELSE add_files(r.cat, files, i + 1, root, prefix, subdir_ids, infos, infer_stats)

\* the skip of a file that only looks at the directory holding it
in_excluded_dir_direct_only(parent_dir, infos) ==
    \E excl \in excluded_dirs(infos) : parent_dir = excl

\* "any(parent_dir == excl or excl in parent_dir.parents for excl in ...)"
in_excluded_dir(parent_dir, infos) ==
    \E excl \in excluded_dirs(infos) : parent_dir = excl \/ InParents(excl, parent_dir)

add_files(cat, files, i, root, prefix, subdir_ids, infos, infer_stats) ==
    IF i > Len(files) THEN [cat |-> cat, raised |-> "none"]
    ELSE
        LET file_path == files[i]
            delivery_format == SUPPORTED_FORMATS(lower(suffix(file_path)))
            skip == \/ file_path \in parquet_files(infos)
                    \/ in_excluded_dir(parent(file_path), infos)
                    \/ delivery_format = "None"
                    \/ delivery_format = "parquet"
            idn == build_dataset_id_name(file_path, root, prefix)
            dataset == Dataset(idn.id, idn.name,
                               get_folder_id(file_path, root, prefix, subdir_ids),
                               str(file_path), get_mtime_iso(file_path),
                               delivery_format, NoneInt, None)
        IN  IF skip
            THEN add_files(cat, files, i + 1, root, prefix, subdir_ids, infos, infer_stats)
            ELSE next_file(process_file([cat EXCEPT !.datasets = Append(@, dataset)],
                                        file_path, Len(cat.datasets) + 1, infer_stats,
                                        threshold_or_none(cat)),
                           files, i, root, prefix, subdir_ids, infos, infer_stats)

\* the files of the walk taken in the order the filesystem listed them
sorted_files_as_listed(files) == files

\* "for file_path in sorted(files)"
sorted_files(files) == SortedPaths(Range(files))

\* Catalog.add_folder(path, folder, recursive=..., infer_stats=...): [cat, raised];
\* h is the handle of the caller's Folder, NewObj when folder is None; listing
\* is the order in which the filesystem lists the entries
add_folder(cat, path, h, recursive, infer_stats, listing) ==
    IF ~exists(path) THEN [cat |-> cat, raised |-> "FileNotFoundError"]
    ELSE IF ~is_dir(path) THEN [cat |-> cat, raised |-> "NotADirectoryError"]
    ELSE
        LET root == path
            c0 == IF h = NewObj THEN cat
                  ELSE write_folder(cat, h, str(root), get_mtime_iso(root), "filesystem")
            folder == IF h = NewObj
                      THEN Folder(sanitize_id(name(root)), name(root), None,
                                  "filesystem", str(root), get_mtime_iso(root))
                      ELSE c0.heap[h]
            c1 == [c0 EXCEPT !.folders = Append(@, folder)]
            prefix == folder.id
            infos == discover_parquet_datasets(root, recursive)
            files == find_files_listed(root, recursive, listing)
            subdirs == {d \in find_subdirs(root, Range(files)) :
                          ~\E excl \in excluded_dirs(infos) : d = excl \/ InParents(excl, d)}
            sorted == SortedPaths(subdirs)
            c2 == [c1 EXCEPT !.folders =
                      @ \o [i \in 1..Len(sorted) |-> sub_folder(sorted, i, root, prefix)]]
            subdir_ids == subdir_ids_after(sorted, Len(sorted), root, prefix)
            c3 == add_parquet_datasets(c2, infos, 1, root, prefix, subdir_ids, infer_stats)
        IN  add_files(c3, sorted_files(files), 1, root, prefix, subdir_ids, infos,
                      infer_stats)

(***************************************************************************)
(* Databases: the connections add_database is pointed at                   *)
(*                                                                         *)
(* backend : tail of the connection's module name                          *)
(* db_name, db_path : what get_database_name / get_database_path return    *)
(* schemas : what con.list_schemas() returns                               *)
(* default : the schema con.list_tables() and con.table(name) look in      *)
(* raw_sql : "ok", "missing" (no raw_sql attribute), "fails" (it raises)   *)
(* objects : tables and views, [schema, name, kind, table]                 *)
(***************************************************************************)
DB_lite ==
    [backend |-> "sqlite", db_name |-> <<"d", "b">>, db_path |-> <<"/", "d", "b">>,
     schemas |-> << >>, default |-> <<"m", "a", "i", "n">>, raw_sql |-> "ok",
     objects |->
        { [schema |-> <<"m", "a", "i", "n">>, name |-> <<"h", "r", "_", "a">>,
           kind |-> "table", table |-> T_sex],
          [schema |-> <<"m", "a", "i", "n">>, name |-> <<"h", "r", "_", "b">>,
           kind |-> "table", table |-> T_people],
          [schema |-> <<"m", "a", "i", "n">>, name |-> <<"x", "@">>,
           kind |-> "table", table |-> T_gender],
          [schema |-> <<"m", "a", "i", "n">>, name |-> <<"v">>,
           kind |-> "view", table |-> T_sex] }]

DB_duck ==
    [backend |-> "duckdb", db_name |-> <<"d", "b">>, db_path |-> None,
     schemas |-> << <<"i", "n", "f", "o", "r", "m", "a", "t", "i", "o", "n", "_",
                      "s", "c", "h", "e", "m", "a">>,
                    <<"m", "a", "i", "n">>, <<"o", "t", "h">> >>,
     default |-> <<"m", "a", "i", "n">>, raw_sql |-> "ok",
     objects |->
        { [schema |-> <<"m", "a", "i", "n">>, name |-> <<"t">>,
           kind |-> "table", table |-> T_people],
          [schema |-> <<"m", "a", "i", "n">>, name |-> <<"w">>,
           kind |-> "view", table |-> T_sex],
          [schema |-> <<"o", "t", "h">>, name |-> <<"w">>,
           kind |-> "table", table |-> T_gender],
          [schema |-> <<"o", "t", "h">>, name |-> <<"u">>,
           kind |-> "view", table |-> T_sex] }]

\* a warehouse: in schema a the tables d_p_x, d_p_y, d_q and z, in schema b
\* the tables d_p_x and e
DB_wh ==
    [backend |-> "duckdb", db_name |-> <<"w", "h">>, db_path |-> None,
     schemas |-> << <<"a">>, <<"b">> >>,
     default |-> <<"a">>, raw_sql |-> "ok",
     objects |->
        { [schema |-> <<"a">>, name |-> <<"d", "_", "p", "_", "x">>,
           kind |-> "table", table |-> T_sex],
          [schema |-> <<"a">>, name |-> <<"d", "_", "p", "_", "y">>,
           kind |-> "table", table |-> T_empty],
          [schema |-> <<"a">>, name |-> <<"d", "_", "q">>,
           kind |-> "table", table |-> T_empty],
          [schema |-> <<"a">>, name |-> <<"z">>,
           kind |-> "table", table |-> T_empty],
          [schema |-> <<"b">>, name |-> <<"d", "_", "p", "_", "x">>,
           kind |-> "table", table |-> T_gender],
          [schema |-> <<"b">>, name |-> <<"e">>,
           kind |-> "table", table |-> T_empty] }]

DB_pg ==
    [backend |-> "postgres", db_name |-> <<"p", "g">>, db_path |-> None,
     schemas |-> << <<"p", "g", "_", "c", "a", "t", "a", "l", "o", "g">>,
                    <<"p", "u", "b", "l", "i", "c">> >>,
     default |-> <<"p", "u", "b", "l", "i", "c">>, raw_sql |-> "fails",
     objects |->
        { [schema |-> <<"p", "u", "b", "l", "i", "c">>, name |-> <<"e">>,
           kind |-> "table", table |-> T_empty],
          [schema |-> <<"p", "u", "b", "l", "i", "c">>, name |-> <<"v">>,
           kind |-> "view", table |-> T_sex] }]

DB_polars ==
    [backend |-> "polars", db_name |-> <<"p">>, db_path |-> None,
     schemas |-> << >>, default |-> <<"m", "a", "i", "n">>, raw_sql |-> "missing",
     objects |-> { }]

(***************************************************************************)
(* readers/database.py                                                     *)
(***************************************************************************)
\* SYSTEM_SCHEMAS.get(backend), the entries that name schemas of the model
SYSTEM_SCHEMAS(backend) ==
    CASE backend = "postgres" ->
            { <<"i", "n", "f", "o", "r", "m", "a", "t", "i", "o", "n", "_",
                "s", "c", "h", "e", "m", "a">>,
              <<"p", "g", "_", "c", "a", "t", "a", "l", "o", "g">>,
              <<"p", "g", "_", "t", "o", "a", "s", "t">> }
      [] backend = "mysql" ->
            { <<"i", "n", "f", "o", "r", "m", "a", "t", "i", "o", "n", "_",
                "s", "c", "h", "e", "m", "a">>,
              <<"m", "y", "s", "q", "l">>, <<"s", "y", "s">> }
      [] backend = "duckdb" ->
            { <<"i", "n", "f", "o", "r", "m", "a", "t", "i", "o", "n", "_",
                "s", "c", "h", "e", "m", "a">> }
      [] OTHER -> { }

\* connect(connection) on a backend object: the exception it raises, if any
connect_raises(con) ==
    IF con.backend \in {"pyspark", "datafusion", "polars"} THEN "ValueError" ELSE "none"

\* list_schemas(con)
list_schemas(con) == con.schemas

\* get_schemas_to_scan(con, schema, backend_name): the explicit schema, else
\* the listed schemas without the system schemas, else [None]
get_schemas_to_scan(con, schema) ==
    IF schema /= None THEN <<schema>>
    ELSE LET kept == SelectSeq(list_schemas(con),
                               LAMBDA sc : sc \notin SYSTEM_SCHEMAS(con.backend))
         IN  IF kept = << >> THEN <<None>> ELSE kept

\* str.upper, on the characters of the model
upper(s) ==
    [i \in 1..Len(s) |->
        CASE s[i] = "a" -> "A" [] s[i] = "f" -> "F" [] s[i] = "m" -> "M"
          [] OTHER -> s[i]]

\* con.list_tables(database=schema) / con.list_tables(): tables and views
ibis_list_tables(con, schema) ==
    {o.name : o \in {x \in con.objects :
                        x.schema = IF Truthy(schema) THEN schema ELSE con.default}}

\* the rows raw_sql(query).fetchall() returns in list_tables
actual_tables(con, schema) ==
    CASE con.backend = "sqlite" ->
            {o.name : o \in {x \in con.objects :
                /\ x.kind = "table"
                /\ ~(Len(x.name) >= 7 /\ SubSeq(x.name, 1, 6) = <<"s", "q", "l", "i", "t", "e">>)}}
      [] con.backend \in {"duckdb", "postgres", "mysql"} ->
            {o.name : o \in {x \in con.objects :
                /\ x.kind = "table"
                /\ (Truthy(schema) => x.schema = schema)}}
      [] con.backend = "oracle" ->
            {o.name : o \in {x \in con.objects :
                /\ x.kind = "table"
                /\ x.schema = IF Truthy(schema) THEN upper(schema) ELSE con.default}}
      [] OTHER -> { }

\* list_tables(con, schema, None, None, backend_name)
list_tables(con, schema) ==
    LET tables == ibis_list_tables(con, schema)
        filtered == con.raw_sql = "ok"
                    /\ con.backend \in {"sqlite", "duckdb", "postgres", "mysql", "oracle"}
    IN  SortedStrs(IF filtered THEN tables \cap actual_tables(con, schema) ELSE tables)

\* con.table(table_name, database=schema)
db_table(con, table_name, schema) ==
    (CHOOSE o \in con.objects :
        /\ o.name = table_name
        /\ o.schema = IF Truthy(schema) THEN schema ELSE con.default).table

\* table.limit(n): n rows of the table, the backend choosing which; start
\* is the row the backend happens to begin with
limit(t, n, start) ==
    [t EXCEPT !.rows = [j \in 1..n |-> t.rows[((start + j - 1) % Len(t.rows)) + 1]]]

\* scan_table handing back the number of rows the statistics ran on
scan_table_sampled_count(con, table_name, schema, infer_stats, freq_threshold, sample_size, start) ==
    LET table == db_table(con, table_name, schema)
        row_count == Len(table.rows)
        stats_table == IF sample_size /= NoneInt /\ row_count > sample_size
                       THEN limit(table, sample_size, start)
                       ELSE table
    IN  ScanResult("none", build_variables(stats_table, infer_stats, freq_threshold),
                   Len(stats_table.rows), None, None)

\* scan_table: [variables, row_count, has_freq, freq]
scan_table(con, table_name, schema, infer_stats, freq_threshold, sample_size, start) ==
    LET table == db_table(con, table_name, schema)
        row_count == Len(table.rows)
        stats_table == IF sample_size /= NoneInt /\ row_count > sample_size
                       THEN limit(table, sample_size, start)
                       ELSE table
    IN  ScanResult("none", build_variables(stats_table, infer_stats, freq_threshold),
                   row_count, None, None)

(***************************************************************************)
(* _prefix.py: the prefix grouper                                          *)
(***************************************************************************)
\* the leading token sequences of a table name, joined by sep again
leading_prefixes(table, sep) ==
    {SubSeq(table, 1, i - 1) : i \in {j \in 2..Len(table) : table[j] = sep}}
    \cup (IF table = << >> THEN { } ELSE {table})

\* the tables that start with prefix + sep
prefix_members(tables, prefix, sep) ==
    {t \in Range(tables) : StartsWith(t, prefix \o <<sep>>)}

\* surviving_prefixes that keeps a prefix every table uses
surviving_prefixes_with_universal(tables, sep, min_count) ==
    {p \in UNION {leading_prefixes(t, sep) : t \in Range(tables)} :
        Cardinality(prefix_members(tables, p, sep)) >= min_count}

\* the prefixes that survive: used by min_count tables at least, not by all
surviving_prefixes(tables, sep, min_count) ==
    {p \in UNION {leading_prefixes(t, sep) : t \in Range(tables)} :
        LET n == Cardinality(prefix_members(tables, p, sep))
        IN  n >= min_count /\ n < Cardinality(Range(tables))}

\* parent_prefix_of that takes the shortest surviving ancestor
parent_prefix_shortest(p, surviving, sep) ==
    LET anc == {a \in surviving : a /= p /\ StartsWith(p, a \o <<sep>>)}
    IN  IF anc = { } THEN None
        ELSE CHOOSE a \in anc : \A b \in anc : Len(a) <= Len(b)

\* the longest surviving strict ancestor of a prefix, None if there is none
parent_prefix_of(p, surviving, sep) ==
    LET anc == {a \in surviving : a /= p /\ StartsWith(p, a \o <<sep>>)}
    IN  IF anc = { } THEN None
        ELSE CHOOSE a \in anc : \A b \in anc : Len(b) <= Len(a)

\* get_prefix_folders(tables, sep, min_count): parents before children
get_prefix_folders(tables, sep, min_count) ==
    LET surviving == surviving_prefixes(tables, sep, min_count)
        sorted == SortedStrs(surviving)
    IN  [i \in 1..Len(sorted) |->
            [prefix |-> sorted[i],
             parent_prefix |-> parent_prefix_of(sorted[i], surviving, sep)]]

\* get_table_prefix(table_name, valid_prefixes, sep): the longest match
get_table_prefix(table_name, valid_prefixes, sep) ==
    LET match == {p \in valid_prefixes : StartsWith(table_name, p \o <<sep>>)}
    IN  IF match = { } THEN None
        ELSE CHOOSE p \in match : \A q \in match : Len(q) <= Len(p)

(***************************************************************************)
(* Catalog.add_database                                                    *)
(***************************************************************************)
\* "Create prefix folders": prefix_folder_ids after the first n prefix folders
RECURSIVE prefix_folder_ids_after(_, _, _)
prefix_folder_ids_after(pfs, n, current_folder_id) ==
    IF n = 0 THEN << >>
    ELSE
        LET before == prefix_folder_ids_after(pfs, n - 1, current_folder_id)
            pf == pfs[n]
            parent_id == IF pf.parent_prefix /= None
                         THEN (CHOOSE e \in Range(before) : e.prefix = pf.parent_prefix).id
                         ELSE current_folder_id
        IN  Append(before, [prefix |-> pf.prefix, parent_id |-> parent_id,
                            id |-> make_id(<<parent_id, sanitize_id(pf.prefix)>>)])

\* every table filed directly under the schema or root folder
target_folder_id_flat(table_prefix, pids, current_folder_id) == current_folder_id

\* "if table_prefix: table_folder_id = prefix_folder_ids[table_prefix]
\* else: table_folder_id = current_folder_id"
target_folder_id(table_prefix, pids, current_folder_id) ==
    IF Truthy(table_prefix)
    THEN (CHOOSE e \in Range(pids) : e.prefix = table_prefix).id
    ELSE current_folder_id

\* the tables of one schema: tables i..Len(tables), in order
RECURSIVE add_tables(_, _, _, _, _, _, _, _, _)
add_tables(cat, con, schema_name, tables, i, pids, current_folder_id, sep, opt) ==
    IF i > Len(tables) THEN cat
    ELSE
        LET table_name == tables[i]
            valid_prefixes == {e.prefix : e \in Range(pids)}
            table_prefix == IF valid_prefixes /= { }
                            THEN get_table_prefix(table_name, valid_prefixes, sep)
                            ELSE None
            table_folder_id == target_folder_id(table_prefix, pids, current_folder_id)
            dataset_id == make_id(<<table_folder_id, sanitize_id(table_name)>>)
            res == scan_table(con, table_name, schema_name, opt.infer_stats,
                              threshold_or_none(cat), opt.sample_size, opt.start)
            dataset == Dataset(dataset_id, table_name, table_folder_id, None,
                               <<"n", "o", "w">>, con.backend, res.nb_row, None)
            c1 == [cat EXCEPT !.datasets = Append(@, dataset)]
        IN  add_tables(finalize_variables(c1, res.variables, dataset, res.has_freq, res.freq),
                       con, schema_name, tables, i + 1, pids, current_folder_id, sep, opt)

\* a sub-folder for every schema, however many are in scope
needs_schema_folder_always(schema_name, schemas) == schema_name /= None

\* "if schema_name is not None and len(schemas_to_scan) > 1"
needs_schema_folder(schema_name, schemas) == schema_name /= None /\ Len(schemas) > 1

\* "Process each schema": schemas i..Len(schemas), in order
RECURSIVE add_schemas(_, _, _, _, _, _)
add_schemas(cat, con, schemas, i, root_folder_id, opt) ==
    IF i > Len(schemas) THEN cat
    ELSE
        LET schema_name == schemas[i]
            sub == needs_schema_folder(schema_name, schemas)
            schema_folder_id == make_id(<<root_folder_id, sanitize_id(schema_name)>>)
            c1 == IF sub
                  THEN [cat EXCEPT !.folders =
                          Append(@, Folder(schema_folder_id, schema_name, root_folder_id,
                                           "schema", None, <<"n", "o", "w">>))]
                  ELSE cat
            current_folder_id == IF sub THEN schema_folder_id ELSE root_folder_id
            tables == list_tables(con, schema_name)
            pfs == IF opt.group_by_prefix
                   THEN get_prefix_folders(tables, "_", opt.prefix_min_tables)
                   ELSE << >>
            pids == prefix_folder_ids_after(pfs, Len(pfs), current_folder_id)
            c2 == [c1 EXCEPT !.folders =
                      @ \o [k \in 1..Len(pids) |->
                              Folder(pids[k].id, pids[k].prefix, pids[k].parent_id,
                                     "table_prefix", None, <<"n", "o", "w">>)]]
        IN  add_schemas(add_tables(c2, con, schema_name, tables, 1, pids,
                                   current_folder_id, "_", opt),
                        con, schemas, i + 1, root_folder_id, opt)

\* Catalog.add_database(connection, folder, schema=..., infer_stats=...,
\* sample_size=..., group_by_prefix=..., prefix_min_tables=...): [cat, raised];
\* opt holds the keyword arguments and the row LIMIT starts at
add_database(cat, con, h, opt) ==
    IF connect_raises(con) /= "none" THEN [cat |-> cat, raised |-> connect_raises(con)]
    ELSE
        LET schemas_to_scan == get_schemas_to_scan(con, opt.schema)
            c0 == IF h = NewObj THEN cat
                  ELSE write_folder(cat, h, con.db_path, <<"n", "o", "w">>, con.backend)
            folder == IF h = NewObj
                      THEN Folder(sanitize_id(con.db_name), con.db_name, None,
                                  con.backend, con.db_path, <<"n", "o", "w">>)
                      ELSE c0.heap[h]
            c1 == [c0 EXCEPT !.folders = Append(@, folder)]
        IN  [cat |-> add_schemas(c1, con, schemas_to_scan, 1, folder.id, opt),
             raised |-> "none"]

(***************************************************************************)
(* Catalog.add_dataset                                                     *)
(***************************************************************************)
\* _is_delta_table / _is_iceberg_table / _is_hive_partitioned on a directory
dir_kind(p) ==
    IF \E d \in DatasetDirs : d.path = p
    THEN (CHOOSE d \in DatasetDirs : d.path = p).kind
    ELSE "none"

\* "dataset_name = name or metadata.name or dir_path.name"
dataset_name(nm, metadata_name, default) == Or(nm, Or(metadata_name, default))

\* final_description with the embedded description first
final_description_metadata_first(description, metadata_description) ==
    Or(metadata_description, description)

\* "description if description is not None else metadata.description"
final_description(description, metadata_description) ==
    IF description /= None THEN description ELSE metadata_description

\* Catalog._add_parquet_directory: [cat, raised]; a holds the keyword arguments
add_parquet_directory(cat, dir_path, folder_id, a) ==
    IF dir_kind(dir_path) \notin {"delta", "iceberg", "hive"}
    THEN [cat |-> cat, raised |-> "ValueError"]
    ELSE
        LET info == CHOOSE d \in DatasetDirs : d.path = dir_path
            delivery_format == IF info.kind = "hive" THEN "parquet" ELSE info.kind
            base_name == sanitize_id(name(dir_path))
            dataset_id == IF a.id /= None THEN a.id
                          ELSE IF Truthy(folder_id) THEN make_id(<<folder_id, base_name>>)
                          ELSE base_name
            res == scan_parquet_dataset(info, a.infer_stats, threshold_or_none(cat))
            dataset == Dataset(dataset_id,
                               dataset_name(a.name, res.meta_name, name(dir_path)),
                               folder_id, str(dir_path), get_mtime_iso(dir_path),
                               delivery_format, res.nb_row,
                               final_description(a.description, res.meta_description))
            c1 == [cat EXCEPT !.datasets = Append(@, dataset)]
        IN  [cat |-> finalize_variables(c1, res.variables, dataset, res.has_freq, res.freq),
             raised |-> "none"]

\* Catalog.add_dataset after its two checks ("Add folder if not already
\* present" onwards): [cat, raised]
add_dataset_resolved(cat, a) ==
    LET c1 == IF a.folder /= NewObj
                 /\ ~\E i \in 1..Len(cat.folders) : cat.folders[i].id = cat.heap[a.folder].id
              THEN [cat EXCEPT !.folders = Append(@, cat.heap[a.folder])]
              ELSE cat
        resolved_folder_id == IF a.folder /= NewObj THEN cat.heap[a.folder].id
                              ELSE a.folder_id
        delivery_format == SUPPORTED_FORMATS(lower(suffix(a.path)))
    IN  IF is_dir(a.path) THEN add_parquet_directory(c1, a.path, resolved_folder_id, a)
        ELSE IF delivery_format = "None" THEN [cat |-> c1, raised |-> "ValueError"]
        ELSE
            LET base_name == sanitize_id(stem(a.path))
                dataset_id == IF a.id /= None THEN a.id
                              ELSE IF Truthy(resolved_folder_id)
                              THEN make_id(<<resolved_folder_id, base_name>>)
                              ELSE base_name
                dataset == Dataset(dataset_id, Or(a.name, stem(a.path)),
                                   resolved_folder_id, str(a.path),
                                   get_mtime_iso(a.path), delivery_format,
                                   NoneInt, a.description)
                c2 == [c1 EXCEPT !.datasets = Append(@, dataset)]
            IN  process_file(c2, a.path, Len(c2.datasets), a.infer_stats,
                             threshold_or_none(cat))

\* add_dataset where a Folder object silently wins over folder_id
add_dataset_folder_wins(cat, a) ==
    IF ~exists(a.path) THEN [cat |-> cat, raised |-> "FileNotFoundError"]
    ELSE add_dataset_resolved(cat, a)

\* Catalog.add_dataset(path, folder, folder_id=..., infer_stats=..., id=...,
\* name=..., description=...): [cat, raised]; a holds the arguments, a.folder
\* is the handle of the caller's Folder, NewObj when folder is None
add_dataset(cat, a) ==
    IF ~exists(a.path) THEN [cat |-> cat, raised |-> "FileNotFoundError"]
    ELSE IF a.folder /= NewObj /\ a.folder_id /= None
    THEN [cat |-> cat, raised |-> "ValueError"]
    ELSE add_dataset_resolved(cat, a)

(***************************************************************************)
(* The state machine: one Catalog, the caller's Folder objects, the calls  *)
(***************************************************************************)
VARIABLES
    folders,         \* Catalog.folders
    datasets,        \* Catalog.datasets
    variables,       \* Catalog.variables
    modalities,      \* Catalog.modalities
    values,          \* Catalog.values
    freq_tables,     \* Catalog._freq_tables
    modality_index,  \* Catalog._modality_index
    freq_threshold,  \* Catalog.freq_threshold
    heap,            \* the Folder objects the caller holds
    last,            \* the call that ended last: arguments, exception, result
    ncalls,          \* number of calls issued
    workers,         \* the scans that feed the Catalog side by side
    lock             \* the worker inside the finalize step, 0 when none is

vars == <<folders, datasets, variables, modalities, values, freq_tables,
          modality_index, freq_threshold, heap, last, ncalls, workers, lock>>

\* the Catalog as one value, and back
Cat ==
    [folders |-> folders, datasets |-> datasets, variables |-> variables,
     modalities |-> modalities, values |-> values, freq_tables |-> freq_tables,
     modality_index |-> modality_index, freq_threshold |-> freq_threshold,
     heap |-> heap]

SetCat(cat) ==
    /\ folders' = cat.folders
    /\ datasets' = cat.datasets
    /\ variables' = cat.variables
    /\ modalities' = cat.modalities
    /\ values' = cat.values
    /\ freq_tables' = cat.freq_tables
    /\ modality_index' = cat.modality_index
    /\ freq_threshold' = cat.freq_threshold
    /\ heap' = cat.heap

\* a Folder(id=..., name=..., parent_id=...) the caller has built
CallerFolder(h, id, nm, parent_id) ==
    [Folder(id, nm, parent_id, "None", None, None) EXCEPT !.obj = h]

Handles == {"F1", "F2"}

InitHeap ==
    [h \in Handles |->
        IF h = "F1" THEN CallerFolder(h, <<"s", "r", "c">>, <<"S">>, None)
        ELSE CallerFolder(h, <<"h", "r">>, <<"H">>, <<"g", "h", "o", "s", "t">>)]

\* what last holds about a call: lengths of the collections before it
Call(op, args, raised, result) ==
    [op |-> op, args |-> args, raised |-> raised, result |-> result,
     nf |-> Len(folders), nd |-> Len(datasets), nv |-> Len(variables)]

\* the scans that run side by side on one Catalog, and where each one is:
\* pc is its position, path the file it scans, k the index of its Dataset,
\* fin the variables of its finalize step, i the variable the step is at
Workers == 1..MaxWorkers
IdleWorker == [pc |-> "idle", path |-> << >>, k |-> 0, fin |-> << >>, i |-> 0]

\* Catalog(freq_threshold=...)
Init ==
    /\ folders = << >>
    /\ datasets = << >>
    /\ variables = << >>
    /\ modalities = << >>
    /\ values = << >>
    /\ freq_tables = << >>
    /\ modality_index = { }
    /\ freq_threshold \in {0, 2, 100}
    /\ heap = InitHeap
    /\ last = Call("init", << >>, "none", << >>)
    /\ ncalls = 0
    /\ workers = [w \in Workers |-> IdleWorker]
    /\ lock = 0


\* paths the calls are given
P_rat == << <<"r", "@">> >>
P_rhash == << <<"r", "#">> >>
P_ok == << <<"o", "k">> >>
P_missing == << <<"n", "o">> >>
P_people == << <<"r", "@">>, <<"a", "@", ".", "c", "s", "v">> >>
P_c == << <<"r", "#">>, <<"c", ".", "c", "s", "v">> >>
P_badxlsx == << <<"r", "#">>, <<"b", ".", "x", "l", "s", "x">> >>
P_json == << <<"r", "#">>, <<"n", ".", "j", "s", "o", "n">> >>
P_delta == << <<"r", "@">>, <<"d", "l">> >>
P_plaindir == << <<"r", "#">>, <<"u">> >>
P_hive == << <<"o", "k">>, <<"h">> >>
P_sas == << <<"o", "k">>, <<"l", ".", "s", "a", "s", "7", "b", "d", "a", "t">> >>

\* the add_folder calls of the model: include and exclude are left at None
AddFolderArgs ==
    [path : {P_rat, P_rhash, P_ok}, folder : {NewObj, "F1"},
     recursive : {TRUE}, infer_stats : {TRUE}]
    \cup [path : {P_rat}, folder : {"F2"}, recursive : {FALSE}, infer_stats : {FALSE}]
    \cup [path : {P_missing, P_c}, folder : {NewObj}, recursive : {TRUE},
          infer_stats : {TRUE}]

\* the add_database calls of the model: include and exclude are left at None;
\* start is the row at which the backend begins a LIMIT
DbOpt(schema, infer_stats, sample_size, start, group_by_prefix) ==
    [schema |-> schema, infer_stats |-> infer_stats, sample_size |-> sample_size,
     start |-> start, group_by_prefix |-> group_by_prefix, prefix_min_tables |-> 2]

AddDatabaseArgs ==
    { [con |-> DB_lite, folder |-> h, opt |-> DbOpt(None, TRUE, NoneInt, 0, TRUE)] :
        h \in {NewObj, "F1"} }
    \cup { [con |-> DB_lite, folder |-> NewObj, opt |-> DbOpt(None, TRUE, 2, st, FALSE)] :
            st \in {0, 1} }
    \cup { [con |-> DB_duck, folder |-> NewObj, opt |-> DbOpt(sc, TRUE, NoneInt, 0, TRUE)] :
            sc \in {None, <<"o", "t", "h">>} }
    \cup { [con |-> c, folder |-> NewObj, opt |-> DbOpt(None, FALSE, 1, 0, TRUE)] :
            c \in {DB_pg, DB_polars} }
    \cup { [con |-> DB_wh, folder |-> NewObj, opt |-> DbOpt(sc, FALSE, NoneInt, 0, TRUE)] :
            sc \in {None, <<"a">>} }

\* the add_dataset calls of the model
DsArgs(path, folder, folder_id, id, nm, description) ==
    [path |-> path, folder |-> folder, folder_id |-> folder_id, infer_stats |-> TRUE,
     id |-> id, name |-> nm, description |-> description]

AddDatasetArgs ==
    { DsArgs(p, h, None, None, None, None) :
        p \in {P_people, P_c, P_delta}, h \in {NewObj, "F1"} }
    \cup { DsArgs(P_c, NewObj, fid, None, None, None) :
            fid \in {<<"s", "r", "c">>, <<"z", "z">>} }
    \cup { DsArgs(p, "F1", <<"s", "r", "c">>, None, None, None) :
            p \in {P_c, P_delta} }
    \cup { DsArgs(p, NewObj, None, <<"i">>, <<"n">>, <<"d">>) : p \in {P_c, P_delta} }
    \cup { DsArgs(p, NewObj, None, None, << >>, << >>) : p \in {P_c, P_delta} }
    \cup { DsArgs(P_hive, NewObj, None, None, None, None) }
    \cup { DsArgs(P_sas, NewObj, None, None, None, <<"d">>),
           DsArgs(P_badxlsx, NewObj, None, None, None, None),
           DsArgs(P_plaindir, "F2", None, None, None, None),
           DsArgs(P_json, "F1", None, None, None, None),
           DsArgs(P_missing, NewObj, None, None, None, None) }

\* a call ends: the Catalog is as the call left it, last remembers the call
EndCall(op, a, r) ==
    /\ SetCat(r.cat)
    /\ last' = Call(op, a, r.raised, << >>)
    /\ ncalls' = ncalls + 1
    /\ UNCHANGED <<workers, lock>>

\* catalog.add_folder(...)
AddFolder ==
    /\ ncalls < MaxCalls
    /\ \E a \in AddFolderArgs :
        \E listing \in Listings :
            \E r \in {add_folder(Cat, a.path, a.folder, a.recursive, a.infer_stats,
                                  listing)} :
                EndCall("add_folder", a, r)

\* catalog.add_database(...)
AddDatabase ==
    /\ ncalls < MaxCalls
    /\ \E a \in AddDatabaseArgs :
        \E r \in {add_database(Cat, a.con, a.folder, a.opt)} :
            EndCall("add_database", a, r)

\* catalog.add_dataset(...)
AddDataset ==
    /\ ncalls < MaxCalls
    /\ \E a \in AddDatasetArgs :
        \E r \in {add_dataset(Cat, a)} : EndCall("add_dataset", a, r)

Next == AddFolder \/ AddDatabase \/ AddDataset

Spec == Init /\ [][Next]_vars


(***************************************************************************)
(* The database readers called on their own, next to add_database.  The    *)
(* readers do not read the Catalog: they are called on the new Catalog.    *)
(***************************************************************************)
\* bounds of the sample sizes and LIMIT starts tried on one table
MaxSample == 4
MaxStart == 2

Connections == {DB_lite, DB_duck, DB_pg}

\* the schemas a caller names for a connection: None and the ones it holds
SchemasOf(con) == {None} \cup {o.schema : o \in con.objects}

ScanTableArgs ==
    UNION { [con : {con}, table_name : {o.name}, schema : {o.schema},
             infer_stats : BOOLEAN, sample_size : {NoneInt} \cup 0..MaxSample,
             start : 0..MaxStart] : con \in Connections, o \in UNION {c.objects : c \in Connections} }

\* scan_table(con, table_name, schema=..., infer_stats=..., freq_threshold=...,
\* sample_size=...)
ScanTable ==
    /\ ncalls = 0
    /\ \E a \in ScanTableArgs :
        /\ \E o \in a.con.objects : o.name = a.table_name /\ o.schema = a.schema
        /\ last' = Call("scan_table", a, "none",
                        scan_table(a.con, a.table_name, a.schema, a.infer_stats,
                                   threshold_or_none(Cat), a.sample_size, a.start))
    /\ ncalls' = ncalls + 1
    /\ UNCHANGED <<folders, datasets, variables, modalities, values, freq_tables,
                   modality_index, freq_threshold, heap, workers, lock>>

\* list_tables(con, schema)
ListTables ==
    /\ ncalls = 0
    /\ \E con \in Connections :
        \E sc \in SchemasOf(con) :
            last' = Call("list_tables", [con |-> con, schema |-> sc], "none",
                         list_tables(con, sc))
    /\ ncalls' = ncalls + 1
    /\ UNCHANGED <<folders, datasets, variables, modalities, values, freq_tables,
                   modality_index, freq_threshold, heap, workers, lock>>

NextDb == AddDatabase \/ ScanTable \/ ListTables

SpecDb == Init /\ [][NextDb]_vars


(***************************************************************************)
(* The identifier builder on its own: sanitize_id on names, make_id on     *)
(* lists of sanitized segments                                             *)
(***************************************************************************)
\* length of a raw name, length of a segment, number of segments of an id
MaxRawLen == 2
MaxSegLen == 4
MaxParts == 2

\* the strings of at most n characters over an alphabet
StringsOver(A, n) == UNION {[1..k -> A] : k \in 0..n}

\* the names sanitize_id is given: ASCII letters, a digit, the four legal
\* punctuation characters, an illegal one and two accented letters
RawNames == StringsOver({"a", "M", "3", "_", ",", "-", " ", "@", "é", "ü"}, MaxRawLen)

\* the sanitized segments make_id is given
Segments == {sanitize_id(r) : r \in StringsOver({"-", "é"}, MaxSegLen)}
IdParts == UNION {[1..k -> Segments] : k \in 1..MaxParts}

\* sanitize_id(value)
SanitizeId ==
    /\ ncalls = 0
    /\ \E value \in RawNames :
        last' = Call("sanitize_id", value, "none", sanitize_id(value))
    /\ ncalls' = ncalls + 1
    /\ UNCHANGED <<folders, datasets, variables, modalities, values, freq_tables,
                   modality_index, freq_threshold, heap, workers, lock>>

\* make_id(*parts)
MakeId ==
    /\ ncalls = 0
    /\ \E parts \in IdParts :
        last' = Call("make_id", parts, "none", make_id(parts))
    /\ ncalls' = ncalls + 1
    /\ UNCHANGED <<folders, datasets, variables, modalities, values, freq_tables,
                   modality_index, freq_threshold, heap, workers, lock>>

InitIds == Init /\ freq_threshold = 0

NextIds == SanitizeId \/ MakeId

SpecIds == InitIds /\ [][NextIds]_vars

(***************************************************************************)
(* The prefix grouper on its own: get_prefix_folders on lists of table     *)
(* names, next to the add_database calls that consume its result           *)
(***************************************************************************)
\* number of table names in a list, and the largest min_count
MaxTables == 4
MaxMinCount == 3

\* the table names the lists are drawn from
TableNames ==
    { <<"a">>, <<"a", "_", "b">>, <<"a", "_", "b", "_", "c">>,
      <<"a", "_", "b", "_", "c", "_", "d">>, <<"a", "_", "b", "_", "d">>,
      <<"a", "_", "c">>, <<"b", "_", "a">>, <<"a", "-", "b">>, <<"a", "-", "c">> }

PrefixArgs ==
    { [tables |-> SortedStrs(S), sep |-> sep, min_count |-> n] :
        S \in {T \in SUBSET TableNames : Cardinality(T) <= MaxTables},
        sep \in {"_", "-"}, n \in 1..MaxMinCount }

\* get_prefix_folders(tables, sep=..., min_count=...)
GetPrefixFolders ==
    /\ ncalls = 0
    /\ \E a \in PrefixArgs :
        last' = Call("get_prefix_folders", a, "none",
                     get_prefix_folders(a.tables, a.sep, a.min_count))
    /\ ncalls' = ncalls + 1
    /\ UNCHANGED <<folders, datasets, variables, modalities, values, freq_tables,
                   modality_index, freq_threshold, heap, workers, lock>>

NextPrefix == AddDatabase \/ GetPrefixFolders

SpecPrefix == Init /\ [][NextPrefix]_vars


(***************************************************************************)
(* Several scans feeding one Catalog side by side.  Each worker runs        *)
(* add_dataset on a CSV file; its _finalize_variables is taken one          *)
(* statement group at a time, and _get_or_create_modality in three steps:   *)
(* the look-up in _modality_index, the creation of the Modality and its     *)
(* Values, the insertion into _modality_index.  The code holds no lock: the *)
(* serialization of the finalize steps is the discipline the callers keep.  *)
(***************************************************************************)
\* the files the workers scan
WorkerFiles ==
    { << <<"r", "@">>, <<"a", "@", ".", "c", "s", "v">> >>,
      << <<"r", "@">>, <<"a", "#", ".", "c", "s", "v">> >>,
      << <<"o", "k">>, <<"g", ".", "c", "s", "v">> >> }

\* what the scanner hands the worker, and the Dataset the worker appended
ScanOf(w) == scan_csv(FileAt(workers[w].path), TRUE, threshold_or_none(Cat))
DatasetOfWorker(w) == datasets[workers[w].k]

\* freq_by_var[old_col_name] for variable i of a finalize step on the scan res
looked_up(res, dataset_id, fin, i) ==
    freq_by_var(res.freq, old_col_name(res.variables, dataset_id, fin[i].id))

\* the values _finalize_variables hands _get_or_create_modality for the
\* variable worker w is at
LookedUp(w) ==
    looked_up(ScanOf(w), DatasetOfWorker(w).id, workers[w].fin, workers[w].i)

\* make_id(MODALITIES_FOLDER_ID, f"mod_{hash_10}")
modality_id_of(vals) ==
    make_id(<<MODALITIES_FOLDER_ID, <<"m", "o", "d", "_">> \o compute_modality_hash(vals)>>)

\* a finalize step may start at any time
may_enter_unserialized(l) == TRUE

\* a finalize step starts only while no other one is running
may_enter(l) == l = 0

\* "self.datasets.append(dataset)" of add_dataset(path)
WorkerBegin(w) ==
    /\ workers[w].pc = "idle"
    /\ \E p \in WorkerFiles :
        /\ datasets' = Append(datasets,
                              Dataset(sanitize_id(stem(p)), stem(p), None, str(p),
                                      get_mtime_iso(p), "csv", NoneInt, None))
        /\ workers' = [workers EXCEPT ![w] = [@ EXCEPT !.pc = "scan", !.path = p,
                                                       !.k = Len(datasets) + 1]]
    /\ UNCHANGED <<folders, variables, modalities, values, freq_tables, modality_index,
                   freq_threshold, heap, last, ncalls, lock>>

\* _process_file up to "dataset.nb_row = nb_row"
WorkerScan(w) ==
    /\ workers[w].pc = "scan"
    /\ datasets' = [datasets EXCEPT ![workers[w].k] = set_scan(@, ScanOf(w))]
    /\ workers' = [workers EXCEPT ![w] = [@ EXCEPT !.pc = "wait"]]
    /\ UNCHANGED <<folders, variables, modalities, values, freq_tables, modality_index,
                   freq_threshold, heap, last, ncalls, lock>>

\* _finalize_variables, "Build final variable IDs"
finalized(scanned, dataset_id) ==
    [i \in 1..Len(scanned) |-> [scanned[i] EXCEPT !.dataset_id = dataset_id,
                                              !.id = final_id(scanned[i], dataset_id)]]

FinalizeEnter(w) ==
    /\ workers[w].pc = "wait"
    /\ may_enter(lock)
    /\ lock' = w
    /\ workers' = [workers EXCEPT ![w] =
                      [@ EXCEPT !.pc = "lookup", !.i = 1,
                                !.fin = finalized(ScanOf(w).variables,
                                                  DatasetOfWorker(w).id)]]
    /\ UNCHANGED <<folders, datasets, variables, modalities, values, freq_tables,
                   modality_index, freq_threshold, heap, last, ncalls>>

\* "Assign modalities to variables", up to "if signature in
\* self._modality_index: return self._modality_index[signature]"
lookup(wk, vals) ==
    IF vals = { } THEN [wk EXCEPT !.i = @ + 1]
    ELSE IF IndexHas(Cat, vals)
    THEN [wk EXCEPT !.fin[wk.i].modality_ids = <<IndexGet(Cat, vals)>>, !.i = @ + 1]
    ELSE [wk EXCEPT !.pc = "create"]

ModalityLookup(w) ==
    /\ workers[w].pc = "lookup"
    /\ workers[w].i <= Len(workers[w].fin)
    /\ workers' = [workers EXCEPT ![w] = lookup(@, LookedUp(w))]
    /\ UNCHANGED <<folders, datasets, variables, modalities, values, freq_tables,
                   modality_index, freq_threshold, heap, last, ncalls, lock>>

\* "Create new modality" up to the loop over sorted(values)
created(cat, vals) ==
    [create_modality(ensure_modalities_folder(cat), vals, modality_id_of(vals)).cat
        EXCEPT !.modality_index = cat.modality_index]

ModalityCreate(w) ==
    /\ workers[w].pc = "create"
    /\ SetCat(created(Cat, LookedUp(w)))
    /\ workers' = [workers EXCEPT ![w] = [@ EXCEPT !.pc = "insert"]]
    /\ UNCHANGED <<last, ncalls, lock>>

\* "self._modality_index[signature] = modality_id; return modality_id" and
\* "var.modality_ids = [modality_id]"
inserted(index, vals) ==
    {e \in index : e.sig /= vals} \cup {[sig |-> vals, id |-> modality_id_of(vals)]}

ModalityInsert(w) ==
    /\ workers[w].pc = "insert"
    /\ modality_index' = inserted(modality_index, LookedUp(w))
    /\ workers' = [workers EXCEPT ![w] =
                      [@ EXCEPT !.pc = "lookup", !.i = @ + 1,
                                !.fin[workers[w].i].modality_ids =
                                    <<modality_id_of(LookedUp(w))>>]]
    /\ UNCHANGED <<folders, datasets, variables, modalities, values, freq_tables,
                   freq_threshold, heap, last, ncalls, lock>>

\* "Update freq table with final variable IDs", "self.variables.extend"
extended(cat, res, dataset_id, fin) ==
    extend_variables([cat |-> cat, variables |-> fin], res.variables, dataset_id,
                     res.has_freq, res.freq)

FinalizeExtend(w) ==
    /\ workers[w].pc = "lookup"
    /\ workers[w].i > Len(workers[w].fin)
    /\ SetCat(extended(Cat, ScanOf(w), DatasetOfWorker(w).id, workers[w].fin))
    /\ workers' = [workers EXCEPT ![w] = [@ EXCEPT !.pc = "done"]]
    /\ lock' = IF lock = w THEN 0 ELSE lock
    /\ UNCHANGED <<last, ncalls>>

InitWorkers == Init /\ freq_threshold = 100

NextWorkers ==
    \E w \in Workers :
        \/ WorkerBegin(w)
        \/ WorkerScan(w)
        \/ FinalizeEnter(w)
        \/ ModalityLookup(w)
        \/ ModalityCreate(w)
        \/ ModalityInsert(w)
        \/ FinalizeExtend(w)

SpecWorkers == InitWorkers /\ [][NextWorkers]_vars

(***************************************************************************)
(* Properties                                                              *)
(***************************************************************************)
\* the values catalog.values lists for one Modality
ValueSetOf(modality_id) ==
    {values[i].value : i \in {k \in 1..Len(values) : values[k].modality_id = modality_id}}

\* the value-sets seen so far: one per variable that has frequency values
SeenValueSets ==
    {variables[i].freq_values : i \in 1..Len(variables)} \ {{ }}

\* C1: after any sequence of add_folder, add_database and add_dataset calls
\* no two entries of catalog.datasets have the same id.
C1_DatasetIdsUnique ==
    \A i, j \in 1..Len(datasets) : i /= j => datasets[i].id /= datasets[j].id

\* C2: after any sequence of ingestion calls no two entries of
\* catalog.variables have the same id, be they two columns of one dataset or
\* columns of different datasets.
C2_VariableIdsUnique ==
    \A i, j \in 1..Len(variables) : i /= j => variables[i].id /= variables[j].id

\* C3: two variables reference the same Modality if and only if their sets
\* of distinct non-null frequency values are equal, and catalog.modalities
\* holds exactly one Modality per distinct value-set seen so far.
C3_OneModalityPerValueSet ==
    /\ \A i, j \in 1..Len(variables) :
        (variables[i].freq_values /= { } /\ variables[j].freq_values /= { })
        => /\ variables[i].modality_ids /= << >>
           /\ (variables[i].modality_ids = variables[j].modality_ids
               <=> variables[i].freq_values = variables[j].freq_values)
    /\ \A S \in SeenValueSets :
        Cardinality({m \in 1..Len(modalities) : ValueSetOf(modalities[m].id) = S}) = 1

\* the Folder at index i has its parent registered before it
ParentBefore(i) ==
    \E j \in 1..(i - 1) : folders[j].id = folders[i].parent_id

\* C4, as stated: every Folder of catalog.folders whose parent_id is not
\* null appears after a Folder whose id equals that parent_id.
C4_EveryParentBefore ==
    \A i \in 1..Len(folders) : folders[i].parent_id /= None => ParentBefore(i)

\* C4, amended: every Folder the catalog creates itself (filesystem
\* sub-folder, schema folder, prefix folder) and whose parent_id is not null
\* appears after a Folder whose id equals that parent_id; a Folder object of
\* the caller is registered with the parent_id it carries.
C4_CreatedParentBefore ==
    \A i \in 1..Len(folders) :
        (folders[i].obj = NewObj /\ folders[i].parent_id /= None) => ParentBefore(i)

\* a sub-folder below a sub-folder and a schema or prefix folder are registered
C4_Witness ==
    /\ \E i \in 1..Len(folders) :
        /\ folders[i].obj = NewObj
        /\ folders[i].type = "filesystem"
        /\ \E j \in 1..(i - 1) :
            /\ folders[j].id = folders[i].parent_id
            /\ folders[j].type = "filesystem"
            /\ folders[j].parent_id /= None
    /\ \E i \in 1..Len(folders) :
        /\ folders[i].type \in {"schema", "table_prefix"}
        /\ folders[i].parent_id /= None

\* C5: every Dataset of catalog.datasets whose folder_id is set has a
\* folder_id equal to the id of some Folder of catalog.folders, add_dataset
\* called with a folder_id string included.
C5_FolderIdResolves ==
    \A d \in 1..Len(datasets) :
        datasets[d].folder_id /= None
        => \E f \in 1..Len(folders) : folders[f].id = datasets[d].folder_id

\* C6: no two entries of catalog.folders have the same id; a Folder passed
\* to several calls is registered once.
C6_FolderIdsUnique ==
    \A i, j \in 1..Len(folders) : i /= j => folders[i].id /= folders[j].id

\* the Datasets and Variables the last call added
NewDatasets == {d \in 1..Len(datasets) : d > last.nd}
NewVariables == {v \in 1..Len(variables) : v > last.nv}

\* add_database stored, for every table it scanned, the full row count of a
\* table of that name, and no statistic of a sampled table exceeds the sample
StoresFullCount(a) ==
    /\ \A d \in NewDatasets :
        \E o \in a.con.objects :
            o.name = datasets[d].name /\ datasets[d].nb_row = Len(o.table.rows)
    /\ \A v \in NewVariables :
        \A d \in NewDatasets :
            (/\ variables[v].dataset_id = datasets[d].id
             /\ a.opt.sample_size /= NoneInt
             /\ a.opt.sample_size < datasets[d].nb_row)
            => variables[v].nb_distinct <= a.opt.sample_size

\* C7: scan_table returns the table's full row count for every sample_size;
\* when sample_size is smaller than the row count every nb_distinct is at
\* most sample_size; add_database stores the full count in Dataset.nb_row.
C7_FullRowCount ==
    /\ last.op = "scan_table" =>
        LET a == last.args
            full == Len(db_table(a.con, a.table_name, a.schema).rows)
        IN  /\ last.result.nb_row = full
            /\ (a.sample_size /= NoneInt /\ a.sample_size < full) =>
                \A c \in 1..Len(last.result.variables) :
                    last.result.variables[c].nb_distinct <= a.sample_size
    /\ (last.op = "add_database" /\ last.raised = "none") => StoresFullCount(last.args)

\* scan_table computed statistics on a sample that hides distinct values of
\* the table
C7_Witness ==
    /\ last.op = "scan_table"
    /\ last.args.infer_stats
    /\ last.args.sample_size >= 1
    /\ LET a == last.args
           t == db_table(a.con, a.table_name, a.schema)
       IN  /\ a.sample_size < Len(t.rows)
           /\ last.result.nb_row = Len(t.rows)
           /\ \E c \in 1..Len(t.cols) :
                /\ n_unique(t, c) > a.sample_size
                /\ last.result.variables[c].nb_distinct = a.sample_size

\* the object a name denotes in the schema list_tables was asked for
ListedObjects(con, schema, n) ==
    {o \in con.objects :
        o.name = n /\ o.schema = IF Truthy(schema) THEN schema ELSE con.default}

\* C8: list_tables never returns the name of a view, whatever the backend,
\* and add_database never creates a Dataset for a view.
C8_NoViewListed ==
    /\ last.op = "list_tables" =>
        \A k \in 1..Len(last.result) :
            \A o \in ListedObjects(last.args.con, last.args.schema, last.result[k]) :
                o.kind = "table"
    /\ (last.op = "add_database" /\ last.raised = "none") =>
        \A d \in NewDatasets :
            \E o \in last.args.con.objects :
                o.name = datasets[d].name /\ o.kind = "table"

\* the files add_folder discovers below a directory, the unparseable ones
Discovered(a) == find_files(a.path, a.recursive)
Unparseable(p) == FileAt(p).content /= "table"

\* the Datasets the last call added for a file
DatasetsOf(p) == {d \in NewDatasets : datasets[d].data_path = str(p)}

\* C9: when add_folder scans a folder holding unparseable files next to
\* valid ones, the call does not raise, every discovered file yields exactly
\* one Dataset, an unparseable file's Dataset has nb_row = 0 and no Variable,
\* and every column of a valid file has its Variable.
C9_PartialFailureIsolated ==
    (/\ last.op = "add_folder"
     /\ is_dir(last.args.path)
     /\ \E p \in Discovered(last.args) : Unparseable(p)
     /\ \E p \in Discovered(last.args) : ~Unparseable(p))
    => /\ last.raised = "none"
       /\ \A p \in Discovered(last.args) :
            /\ Cardinality(DatasetsOf(p)) = 1
            /\ \A d \in DatasetsOf(p) :
                LET own == {v \in NewVariables : variables[v].dataset_id = datasets[d].id}
                IN  IF Unparseable(p)
                    THEN datasets[d].nb_row = 0 /\ own = { }
                    ELSE Cardinality(own) = Len(FileAt(p).table.cols)

\* C10: whenever an ingestion call has ended, every Dataset of
\* catalog.datasets has its nb_row set.
C10_RowCountSet ==
    \A d \in 1..Len(datasets) : datasets[d].nb_row /= NoneInt

\* the Folders of catalog.folders that carry the id of the modalities folder
SentinelFolders ==
    {f \in 1..Len(folders) : folders[f].id = MODALITIES_FOLDER_ID}

\* C11: the Folder with id '_modalities' is in catalog.folders exactly once
\* whenever at least one Modality exists and not at all while none exists;
\* further modalities never add it again.
C11_SentinelOnce ==
    Cardinality(SentinelFolders) = IF modalities = << >> THEN 0 ELSE 1

\* the last call created a Modality while the folder was already there
C11_Witness ==
    /\ \E f \in SentinelFolders : f <= last.nf
    /\ \E m \in 1..Len(modalities) :
        /\ \E v \in 1..Len(variables) :
            v > last.nv /\ variables[v].modality_ids = <<modalities[m].id>>
        /\ \A v \in 1..Len(variables) :
            v <= last.nv => variables[v].modality_ids /= <<modalities[m].id>>

\* the entries of catalog.values that belong to one Modality
ValuesOf(modality_id) == {k \in 1..Len(values) : values[k].modality_id = modality_id}

\* C12: no two entries of catalog.values have the same (modality_id, value)
\* pair, and each Modality has exactly one Value per element of its value-set.
C12_ValuesUnique ==
    /\ \A i, j \in 1..Len(values) :
        i /= j => (values[i].modality_id /= values[j].modality_id
                   \/ values[i].value /= values[j].value)
    /\ \A m \in 1..Len(modalities) :
        \E e \in modality_index :
            /\ e.id = modalities[m].id
            /\ ValueSetOf(e.id) = e.sig
            /\ Cardinality(ValuesOf(e.id)) = Cardinality(e.sig)

\* two Modalities exist and one of them is referenced by two variables
C12_Witness ==
    /\ Len(modalities) >= 2
    /\ \E u, v \in 1..Len(variables) :
        /\ u /= v
        /\ variables[u].id /= variables[v].id
        /\ variables[u].modality_ids /= << >>
        /\ variables[u].modality_ids = variables[v].modality_ids

\* C13: add_dataset called on an existing path with both a Folder object and
\* a folder_id raises ValueError (and leaves the catalog as it was).
C13_BothFolderAndIdRaises ==
    (/\ last.op = "add_dataset"
     /\ exists(last.args.path)
     /\ last.args.folder /= NewObj
     /\ last.args.folder_id /= None)
    => /\ last.raised = "ValueError"
       /\ Len(folders) = last.nf
       /\ Len(datasets) = last.nd
       /\ Len(variables) = last.nv

\* the second call passed a Folder and a folder_id for a dataset directory
C13_Witness ==
    /\ ncalls = 2
    /\ last.op = "add_dataset"
    /\ last.args.path = P_delta
    /\ last.args.folder = "F1"
    /\ last.args.folder_id /= None
    /\ last.raised = "ValueError"

\* the metadata embedded in the source of an add_dataset call
EmbeddedName(p) ==
    IF is_dir(p) THEN (CHOOSE d \in DatasetDirs : d.path = p).name ELSE None
EmbeddedDescription(p) ==
    IF is_dir(p) THEN (CHOOSE d \in DatasetDirs : d.path = p).description
    ELSE Or(file_label(p), None)

\* the defaults add_dataset derives from the path and the folder linkage
DerivedName(p) == IF is_dir(p) THEN name(p) ELSE stem(p)

\* what each path passed to add_dataset yields when nothing explicit is passed
DefaultsOfPath ==
    [p \in {a.path : a \in AddDatasetArgs} |->
        [name |-> Or(EmbeddedName(p), DerivedName(p)),
         description |-> EmbeddedDescription(p),
         base_id |-> sanitize_id(DerivedName(p))]]
DerivedId(a) ==
    LET fid == IF a.folder /= NewObj THEN heap[a.folder].id ELSE a.folder_id
    IN  IF Truthy(fid) THEN make_id(<<fid, DefaultsOfPath[a.path].base_id>>)
        ELSE DefaultsOfPath[a.path].base_id

\* the last call was add_dataset and it added a Dataset
AddedDataset == last.op = "add_dataset" /\ Len(datasets) = last.nd + 1

\* id and description of the Dataset add_dataset added: the explicit value
\* if one was passed, else the extracted one or the default
IdAndDescriptionAsPassed(a, d) ==
    /\ d.id = IF a.id /= None THEN a.id ELSE DerivedId(a)
    /\ d.description = IF a.description /= None THEN a.description
                       ELSE DefaultsOfPath[a.path].description

NewFolders == {f \in 1..Len(folders) : f > last.nf}
NewFoldersOfType(type) == {f \in NewFolders : folders[f].type = type}

\* the last call was an add_database that connected; its root Folder is the
\* first Folder it appended
DatabaseAdded == last.op = "add_database" /\ last.raised = "none"
RootFolderId == folders[last.nf + 1].id

\* the schemas each add_database call of the model scans
SchemasOfCall == [a \in AddDatabaseArgs |-> get_schemas_to_scan(a.con, a.opt.schema)]
ScannedSchemas == SchemasOfCall[last.args]

RECURSIVE TablesFrom(_, _, _)
TablesFrom(con, schemas, i) ==
    IF i > Len(schemas) THEN << >>
    ELSE [k \in 1..Len(list_tables(con, schemas[i])) |->
            [schema |-> schemas[i], table |-> list_tables(con, schemas[i])[k]]]
         \o TablesFrom(con, schemas, i + 1)
TablesOfCall == [a \in AddDatabaseArgs |-> TablesFrom(a.con, SchemasOfCall[a], 1)]
ScannedTables == TablesOfCall[last.args]

\* the folder the tables of a schema are filed under when no prefix matches
ScopeFolderId(schema) ==
    IF schema /= None /\ Len(ScannedSchemas) > 1
    THEN make_id(<<RootFolderId, sanitize_id(schema)>>)
    ELSE RootFolderId

\* the prefix Folders the last call created whose id starts with a prefix,
\* and those among a set of Folders whose name is the prefix of a table name
PrefixFoldersBelow(id_prefix) ==
    {f \in NewFoldersOfType("table_prefix") : StartsWith(folders[f].id, id_prefix)}
ScopePrefixFolders(schema) == PrefixFoldersBelow(ScopeFolderId(schema) \o ID_SEPARATOR)
MatchingPrefixFolders(schema, table) ==
    {f \in ScopePrefixFolders(schema) : StartsWith(table, folders[f].name \o <<"_">>)}

\* the folder a table belongs in: the longest matching prefix of its schema
LongestOf(matching, scope_id) ==
    IF matching = { } THEN scope_id
    ELSE folders[CHOOSE f \in matching :
                    \A g \in matching : Len(folders[g].name) <= Len(folders[f].name)].id
ExpectedFolderId(schema, table) ==
    LongestOf(MatchingPrefixFolders(schema, table), ScopeFolderId(schema))

\* the Dataset of a scanned table: named after it, filed where it belongs
DatasetOfTable(d, t) ==
    /\ d.name = t.table
    /\ d.folder_id = ExpectedFolderId(t.schema, t.table)
    /\ d.id = make_id(<<d.folder_id, sanitize_id(t.table)>>)
DatasetsOfTables(tables) ==
    /\ Len(datasets) = last.nd + Len(tables)
    /\ \A k \in 1..Len(tables) : DatasetOfTable(datasets[last.nd + k], tables[k])

\* the prefix Folders of every schema are those of the tables of that schema
PrefixesOfCall ==
    [a \in AddDatabaseArgs |-> [i \in 1..Len(SchemasOfCall[a]) |->
        {pf.prefix : pf \in Range(get_prefix_folders(
            list_tables(a.con, SchemasOfCall[a][i]), "_", a.opt.prefix_min_tables))}]]
PrefixFoldersOfSchemas(schemas) ==
    \A i \in 1..Len(schemas) :
        {folders[f].name : f \in ScopePrefixFolders(schemas[i])}
        = PrefixesOfCall[last.args][i]

\* C16: with prefix grouping enabled, every scanned table's Dataset is filed
\* under the Folder of the longest valid prefix that matches its name within
\* its own schema, or under the schema/root folder when none matches; its id
\* is make_id(folder_id, sanitize_id(table_name)); the valid prefixes of a
\* schema are those of its own tables.
C16_PrefixFolderAssignment ==
    (DatabaseAdded /\ last.args.opt.group_by_prefix) =>
        /\ DatasetsOfTables(ScannedTables)
        /\ PrefixFoldersOfSchemas(ScannedSchemas)

\* two schemas were scanned; a table of one is filed under a nested prefix
\* folder, the table of the same name in the other under its schema folder
C16_Witness ==
    /\ DatabaseAdded /\ last.args.opt.group_by_prefix
    /\ Len(ScannedSchemas) = 2
    /\ \E j, k \in 1..Len(ScannedTables) :
        /\ ScannedTables[j].table = ScannedTables[k].table
        /\ ScannedTables[j].schema /= ScannedTables[k].schema
        /\ datasets[last.nd + k].folder_id = ScopeFolderId(ScannedTables[k].schema)
        /\ \E f \in MatchingPrefixFolders(ScannedTables[j].schema, ScannedTables[j].table) :
            /\ folders[f].id = datasets[last.nd + j].folder_id
            /\ folders[f].parent_id /= ScopeFolderId(ScannedTables[j].schema)

\* the last call was get_prefix_folders; the tables of its argument that
\* start with a prefix followed by the separator
PrefixFoldersListed == last.op = "get_prefix_folders"
UsersOf(p) ==
    {k \in 1..Len(last.args.tables) :
        StartsWith(last.args.tables[k], p \o <<last.args.sep>>)}

\* C17: get_prefix_folders returns no prefix that is shared by all the
\* tables and no prefix that is shared by fewer than min_count tables.
C17_NoUniversalNoRarePrefix ==
    PrefixFoldersListed =>
        \A i \in 1..Len(last.result) :
            /\ Cardinality(UsersOf(last.result[i].prefix)) < Len(last.args.tables)
            /\ Cardinality(UsersOf(last.result[i].prefix)) >= last.args.min_count

\* a prefix was returned while one shared by all the tables and one shared
\* by fewer than min_count tables were left out
C17_Witness ==
    /\ PrefixFoldersListed
    /\ last.result /= << >>
    /\ \E t \in Range(last.args.tables) :
        \E p \in leading_prefixes(t, last.args.sep) :
            Cardinality(UsersOf(p)) = Len(last.args.tables)
    /\ \E t \in Range(last.args.tables) :
        \E p \in leading_prefixes(t, last.args.sep) :
            /\ Cardinality(UsersOf(p)) > 0
            /\ Cardinality(UsersOf(p)) < last.args.min_count

\* the entries of the returned list that are strict leading-token ancestors
\* of entry i
AncestorsInList(i) ==
    {j \in 1..Len(last.result) :
        StartsWith(last.result[i].prefix, last.result[j].prefix \o <<last.args.sep>>)}

\* C18: in the list returned by get_prefix_folders each entry's parent_prefix
\* is its longest strict leading-token ancestor in the list (null if there is
\* none) and every ancestor comes earlier in the list; add_database finds
\* each prefix folder's parent among the Folders it has appended before.
C18_ParentFirstLongestAncestor ==
    /\ PrefixFoldersListed =>
        \A i \in 1..Len(last.result) :
            IF AncestorsInList(i) = { } THEN last.result[i].parent_prefix = None
            ELSE /\ \A j \in AncestorsInList(i) : j < i
                 /\ \E j \in AncestorsInList(i) :
                     /\ last.result[i].parent_prefix = last.result[j].prefix
                     /\ \A g \in AncestorsInList(i) :
                         Len(last.result[g].prefix) <= Len(last.result[j].prefix)
    /\ DatabaseAdded =>
        \A f \in NewFoldersOfType("table_prefix") :
            \E j \in NewFolders :
                /\ j < f
                /\ folders[j].id = folders[f].parent_id
                /\ folders[j].type = "table_prefix"
                    => StartsWith(folders[f].name, folders[j].name \o <<"_">>)

\* the list holds a prefix with two ancestors and a prefix with none
C18_Witness ==
    /\ PrefixFoldersListed
    /\ \E i \in 1..Len(last.result) : Cardinality(AncestorsInList(i)) >= 2
    /\ \E i \in 1..Len(last.result) : last.result[i].parent_prefix = None

\* the last call was make_id
IdMade == last.op = "make_id"

\* a segment that neither holds the separator nor ends with a hyphen
CleanSegment(seg) ==
    /\ find(seg, ID_SEPARATOR) = 0
    /\ seg /= << >> => seg[Len(seg)] /= "-"

\* C19 (as stated): for any list of sanitized name segments, splitting
\* make_id(parts) on '---' returns exactly the original segments.
C19_SplitRecoversParts ==
    IdMade => split(last.result, ID_SEPARATOR) = last.args

\* C19 (amended): for any non-empty list of sanitized name segments none of
\* which contains '---' or ends with a hyphen, splitting make_id(parts) on
\* '---' returns exactly the original segments.
C19_SplitRecoversCleanParts ==
    (IdMade /\ \A i \in 1..Len(last.args) : CleanSegment(last.args[i]))
    => split(last.result, ID_SEPARATOR) = last.args

\* an id was made of two clean segments, the second one starting with hyphens
C19_Witness ==
    /\ IdMade
    /\ Len(last.args) = 2
    /\ \A i \in 1..Len(last.args) : CleanSegment(last.args[i])
    /\ Len(last.args[2]) > 2 /\ last.args[2][1] = "-" /\ last.args[2][2] = "-"
    /\ last.args[1] /= << >>

\* str.isalpha, str.isdigit on the characters of the model
IsLetter(c) == CodePoint[c] \in (97..122) \cup (65..90) \cup {233, 252}
IsDigit(c) == CodePoint[c] \in 48..57

\* C20: sanitize_id leaves every Unicode letter of its input unchanged; only
\* characters outside letters, digits, underscore, comma, hyphen and space
\* are replaced by an underscore.
C20_UnicodeLettersKept ==
    last.op = "sanitize_id" =>
        /\ Len(last.result) = Len(last.args)
        /\ \A i \in 1..Len(last.args) :
            last.result[i] =
                IF \/ IsLetter(last.args[i]) \/ IsDigit(last.args[i])
                   \/ last.args[i] \in {"_", ",", "-", " "}
                THEN last.args[i] ELSE "_"

\* a Catalog as its constructor leaves it, with the freq_threshold of this one
FreshCat ==
    [folders |-> << >>, datasets |-> << >>, variables |-> << >>,
     modalities |-> << >>, values |-> << >>, freq_tables |-> << >>,
     modality_index |-> { }, freq_threshold |-> freq_threshold, heap |-> InitHeap]

\* the sets of Folder, Dataset, Variable and Modality ids of a Catalog
IdSets(cat) ==
    [folders |-> {cat.folders[i].id : i \in 1..Len(cat.folders)},
     datasets |-> {cat.datasets[i].id : i \in 1..Len(cat.datasets)},
     variables |-> {cat.variables[i].id : i \in 1..Len(cat.variables)},
     modalities |-> {cat.modalities[i].id : i \in 1..Len(cat.modalities)}]

\* the one call made on this Catalog was add_folder
FolderWalkedOnce == ncalls = 1 /\ last.op = "add_folder"

\* the same add_folder call on a fresh Catalog, the filesystem listing its
\* entries in a given order
WalkAgain(listing) ==
    add_folder(FreshCat, last.args.path, last.args.folder, last.args.recursive,
               last.args.infer_stats, listing)

\* C21: add_folder run again on the same tree and a fresh Catalog yields the
\* same sets of Folder, Dataset, Variable and Modality ids (and ends the same
\* way), in whatever order the filesystem lists the entries.
C21_WalkDeterministic ==
    FolderWalkedOnce =>
        \A listing \in Listings :
            /\ IdSets(WalkAgain(listing).cat) = IdSets(Cat)
            /\ WalkAgain(listing).raised = last.raised

\* a tree with sub-directories, a dataset directory and several files was
\* walked and gave Folders, Datasets, Variables and Modalities
C21_Witness ==
    /\ FolderWalkedOnce
    /\ last.args.path = P_rat /\ last.args.recursive
    /\ Len(folders) > 2 /\ Len(datasets) > 2
    /\ Len(variables) > 2 /\ Len(modalities) > 1


\* the directories the last add_folder recognized as one multi-file dataset
RecognizedDirs ==
    {info.path : info \in Range(discover_parquet_datasets(last.args.path,
                                                          last.args.recursive))}

\* the walk of the last add_folder got past the checks of its path
FolderWalked == last.op = "add_folder" /\ is_dir(last.args.path)

PathOfStr ==
    [s \in {str(p) : p \in FilePaths \cup DirPaths} |->
        CHOOSE p \in FilePaths \cup DirPaths : str(p) = s]
SourcePath(d) == PathOfStr[datasets[d].data_path]

\* the Folders the last call created for a directory
FoldersAt(q) == {f \in NewFolders : folders[f].data_path = str(q)}

\* C23: every Dataset produced by add_folder has as folder_id the id of the
\* Folder created for the directory that directly contains its file or
\* dataset directory, and the root folder's id only when that file or
\* directory lies directly in the root.
C23_FolderIdIsContainingDir ==
    FolderWalked =>
        \A d \in NewDatasets :
            /\ \E f \in FoldersAt(parent(SourcePath(d))) :
                  folders[f].id = datasets[d].folder_id
            /\ datasets[d].folder_id = folders[last.nf + 1].id
                  => parent(SourcePath(d)) = last.args.path


\* the sanitized column names of what lies at a data_path, of the tables an
\* add_database call scans, and of the k-th Dataset the last call added
SanitizedNames(cols) == [c \in 1..Len(cols) |-> sanitize_id(cols[c])]
ColumnsAt(p) ==
    IF is_dir(p) THEN (CHOOSE d \in DatasetDirs : d.path = p).table.cols
    ELSE FileAt(p).table.cols
ColumnsOfPath ==
    [s \in {str(p) : p \in FilePaths \cup {d.path : d \in DatasetDirs}} |->
        SanitizedNames(ColumnsAt(PathOfStr[s]))]
ColumnsOfCall ==
    [a \in AddDatabaseArgs |-> [k \in 1..Len(TablesOfCall[a]) |->
        SanitizedNames((CHOOSE o \in ListedObjects(a.con, TablesOfCall[a][k].schema,
                                                   TablesOfCall[a][k].table) :
                            TRUE).table.cols)]]
ScannedColumns(k) ==
    IF last.op = "add_database" THEN ColumnsOfCall[last.args][k]
    ELSE ColumnsOfPath[datasets[last.nd + k].data_path]

\* dataset_id and id of the Variables a finalize step makes of the columns
\* scanned for a Dataset
FinalizedIds(dataset, names) ==
    [c \in 1..Len(names) |->
        [dataset_id |-> dataset.id, id |-> make_id(<<dataset.id, names[c]>>)]]

\* what the finalize steps of the last call make of the columns of its
\* Datasets
ExpectedIds ==
    Flatten([k \in 1..(Len(datasets) - last.nd) |->
                FinalizedIds(datasets[last.nd + k], ScannedColumns(k))])

\* C24: after _finalize_variables every variable of the list carries the id
\* of the dataset and the id make_id(dataset.id, sanitize_id(name)), the
\* dataset is an entry of catalog.datasets, and the variables are appended to
\* catalog.variables exactly once, in scan order: the Variables a call adds
\* are, in order, those of the columns of the Datasets it adds.
C24_VariablesFinalized ==
    [v \in 1..(Len(variables) - last.nv) |->
        [dataset_id |-> variables[last.nv + v].dataset_id,
         id |-> variables[last.nv + v].id]]
    = ExpectedIds

C24_Witness ==
    /\ last.op = "add_folder" /\ last.raised = "none"
    /\ Len(datasets) > last.nd + 2
    /\ Len(variables) > last.nv + 4
    /\ \E v \in NewVariables : variables[v].id /= variables[v].dataset_id
    /\ \E v \in NewVariables : variables[v].modality_ids /= << >>


\* the rows of the stored frequency tables, as (table, row) pairs, and the
\* non-null values of the rows stored under a variable id
FreqRows ==
    UNION {{<<t, q>> : q \in 1..Len(freq_tables[t])} : t \in 1..Len(freq_tables)}
StoredValues(id) ==
    {freq_tables[r[1]][r[2]].value :
        r \in {x \in FreqRows : /\ freq_tables[x[1]][x[2]].variable_id = id
                                 /\ freq_tables[x[1]][x[2]].value /= None}}

\* the (variable_id, value) pairs of the stored rows, and the (id, value)
\* pairs of the frequency values of the Variables
RowPairs ==
    {<<freq_tables[r[1]][r[2]].variable_id, freq_tables[r[1]][r[2]].value>> : r \in FreqRows}
VariablePairs ==
    UNION {{<<variables[v].id, x>> : x \in variables[v].freq_values} :
              v \in 1..Len(variables)}
VariableIds == {variables[v].id : v \in 1..Len(variables)}

\* every row is the row of a frequency value of a Variable with its id (a
\* row of nulls: of a Variable with its id), and no frequency value lacks one
RowsAreOf(rows, pairs, ids) ==
    /\ \A r \in rows : IF r[2] = None THEN r[1] \in ids ELSE r \in pairs
    /\ pairs \subseteq rows

\* C25: every row of every table of catalog._freq_tables has as variable_id
\* the final id of a Variable of catalog.variables: the rewrite leaves no
\* row under a provisional id (each row is a frequency row of a column that
\* got the id it is stored under), and it drops no row (every frequency
\* value of a column is stored under the final id of the column).
C25_FreqRowsRewritten == RowsAreOf(RowPairs, VariablePairs, VariableIds)

C25_Witness ==
    /\ Len(freq_tables) > 1
    /\ \E t \in 1..Len(freq_tables) : Len(freq_tables[t]) > 3
    /\ \E v \in 1..Len(variables) : Cardinality(StoredValues(variables[v].id)) > 1


\* one finalize step has run on a fresh catalog: every stored frequency row
\* is a row of the table handed to that step
OneFinalizeStep == ncalls = 1 /\ last.op = "add_dataset" /\ last.raised = "none"

\* the variable at index v has the modality of exactly the value set S, none
\* when S is empty
HasModalityOf(v, S) ==
    IF S = { } THEN variables[v].modality_ids = << >>
    ELSE /\ Len(variables[v].modality_ids) = 1
         /\ ValueSetOf(variables[v].modality_ids[1]) = S

\* C26: in _finalize_variables each variable's modality is the one of exactly
\* the set of distinct non-null values of the frequency rows grouped under
\* the variable's final id; a variable whose rows carry no non-null value, or
\* that has no frequency row, gets no modality.
C26_ModalityOfGroupedValues ==
    OneFinalizeStep =>
        \A v \in 1..Len(variables) : HasModalityOf(v, StoredValues(variables[v].id))


\* the Modalities of catalog.modalities that carry an id
ModalitiesWithId(id) == {m \in 1..Len(modalities) : modalities[m].id = id}

\* C27: after any sequence of ingestion calls every Variable's modality_ids
\* has at most one entry, each entry is the id of a Modality of
\* catalog.modalities, and that Modality's folder_id is the id of the
\* sentinel Folder, which is in catalog.folders.
C27_ModalityIdsResolve ==
    \A v \in 1..Len(variables) :
        /\ Len(variables[v].modality_ids) <= 1
        /\ \A k \in 1..Len(variables[v].modality_ids) :
              /\ ModalitiesWithId(variables[v].modality_ids[k]) /= { }
              /\ \A m \in ModalitiesWithId(variables[v].modality_ids[k]) :
                    /\ modalities[m].folder_id = MODALITIES_FOLDER_ID
                    /\ SentinelFolders /= { }

C27_Witness ==
    /\ ncalls = 2
    /\ Len(modalities) > 1
    /\ \E v \in 1..Len(variables) : v <= last.nv /\ variables[v].modality_ids /= << >>
    /\ \E v \in NewVariables : variables[v].modality_ids /= << >>
    /\ \E v \in 1..Len(variables) : variables[v].modality_ids = << >>


\* the value-sets the finalize step of a worker hands _get_or_create_modality
requested(res, dataset_id, fin) ==
    {looked_up(res, dataset_id, fin, i) : i \in 1..Len(fin)} \ {{ }}
Requested(w) == requested(ScanOf(w), DatasetOfWorker(w).id, workers[w].fin)

AllDone == \A w \in Workers : workers[w].pc = "done"

\* the Modalities of catalog.modalities that hold exactly the values S
ModalitiesOf(S) == {m \in 1..Len(modalities) : ValueSetOf(modalities[m].id) = S}

\* C28: when several scans feed one Catalog side by side and their finalize
\* steps are serialized, every interleaving ends with exactly one Modality
\* per distinct value-set, and no interleaving ever holds two Modalities of
\* one value-set.
C28_SerializedOneModality ==
    /\ \A m \in 1..Len(modalities) :
          Cardinality(ModalitiesOf(ValueSetOf(modalities[m].id))) = 1
    /\ AllDone =>
          \A w \in Workers : \A S \in Requested(w) : Cardinality(ModalitiesOf(S)) = 1

\* two scans that asked for the same value-set have both ended
C28_Witness ==
    /\ AllDone
    /\ Len(modalities) > 1
    /\ \E u, w \in Workers :
          /\ u /= w
          /\ workers[u].path /= workers[w].path
          /\ Requested(u) \cap Requested(w) /= { }


\* every Folder of catalog.folders is still there after the step, at its
\* place and with the fields it had
FoldersKept ==
    \A f \in 1..Len(folders) : f <= Len(folders') /\ folders'[f] = folders[f]

\* C29: once a Folder is an entry of catalog.folders, no later add_folder,
\* add_database or add_dataset call removes it or changes any of its fields
\* (id, name, parent_id, type, data_path, last_update_date).
C29_FoldersNeverMutated == [][FoldersKept]_vars


\* the step is an add_dataset call that raised because of its arguments
RejectedDataset ==
    last'.op = "add_dataset" /\ last'.raised \in {"FileNotFoundError", "ValueError"}

\* C30: when add_dataset raises because of its arguments (path not found,
\* both folder and folder_id given, unsupported file extension, directory of
\* no recognized dataset kind), catalog.folders, datasets, variables,
\* modalities and values are exactly as they were before the call.
C30_RejectedLeavesCatalog ==
    [][RejectedDataset =>
          UNCHANGED <<folders, datasets, variables, modalities, values>>]_vars

====
